---- MODULE Spec2Model ----
(***************************************************************************)
(* OpenTranscribe: the transcription orchestrator (transcribe_audio_task), *)
(* the WhisperX pipeline it drives, the transcript storage helpers and the *)
(* forced-delete cancellation, as a state machine over the Task, MediaFile,*)
(* TranscriptSegment and Speaker tables.                                   *)
(* Progress values and notification percents are hundredths (0.25 = 25).   *)
(***************************************************************************)
EXTENDS Integers, Sequences, FiniteSets, TLC

\* ------------------------------------------------------------------------
\* Bounds
\* ------------------------------------------------------------------------
MaxTasks == 2
NumFiles == 2
MaxWorkers == 2
MaxFaultRuns == 1
MaxDeleteRuns == 1
MaxUsers == 2
MaxSpeakers == 3
MaxProfiles == 2
MaxLibOps == 3
MaxTicks == 3
MaxWrites == 3
TickSeconds == 150

Tasks == 1..MaxTasks
Files == 1..NumFiles
Workers == 1..MaxWorkers
\* a uuid that matches no MediaFile row
NoFile == NumFiles + 1
NoTask == MaxTasks + 1

\* ------------------------------------------------------------------------
\* Messages.  A message is [head, detail]: str(e) of a wrapped exception is
\* the wrapper's text followed by the wrapped exception's text.
\* ------------------------------------------------------------------------
Msg(h, d) == [head |-> h, detail |-> d]
NoMsg == Msg("", "")

Details ==
  { "ffmpeg exited with code 1",
    "No module named 'librosa'",
    "libcudnn_ops_infer.so.8: cannot open shared object file",
    "CUDA out of memory",
    "GPU device lost",
    "failed to download model weights",
    "401 Client Error: Unauthorized" }

\* the lower-cased keywords a text contains
KwOf(s) ==
  CASE s = "libcudnn_ops_infer.so.8: cannot open shared object file" -> {"libcudnn"}
    [] s = "CUDA out of memory" -> {"cuda", "out of memory"}
    [] s = "GPU device lost" -> {"gpu"}
    [] s = "failed to download model weights" -> {"model", "download", "load"}
    [] s = "401 Client Error: Unauthorized" -> {"401", "unauthorized"}
    [] s = "No module named 'librosa'" -> {"librosa"}
    [] s = "GPU processing error during speaker diarization: " -> {"gpu"}
    [] s = "CUDA cuDNN library compatibility error detected. Technical details: " -> {"cuda"}
    [] s = "Unable to load audio content: " -> {"load"}
    [] s = "Failed to download or load AI models." -> {"model", "download", "load"}
    [] OTHER -> {}

Keywords(m) == KwOf(m.head) \cup KwOf(m.detail)

NoAudioMsg == Msg("No audio content could be detected in this file.", "")
NoSpeechMsg == Msg("No speech could be detected in this file.", "")
GatedMsg == Msg("Cannot access PyAnnote speaker diarization models.", "")
CudnnMsg == Msg("Audio processing failed due to a system library compatibility issue.", "")
OomMsg == Msg("GPU out of memory error.", "")
GpuMsg == Msg("GPU processing error occurred during transcription.", "")
ModelMsg == Msg("Failed to download or load AI models.", "")
DbErrorMsg == Msg("database connection lost", "")
NotifyErrorMsg == Msg("notification channel unavailable", "")
StorageErrorMsg == Msg("object storage unavailable", "")

\* core.py 414-439: user-friendly replacement of the generic handler
FriendlyMessage(m) ==
  LET kw == Keywords(m) IN
  IF "libcudnn" \in kw THEN CudnnMsg
  ELSE IF "cuda" \in kw /\ "out of memory" \in kw THEN OomMsg
  ELSE IF "cuda" \in kw \/ "gpu" \in kw THEN GpuMsg
  ELSE IF "model" \in kw /\ ("download" \in kw \/ "load" \in kw) THEN ModelMsg
  ELSE m

Exc(ty, m) == [type |-> ty, msg |-> m]
NoExc == Exc("none", NoMsg)

\* ------------------------------------------------------------------------
\* Segments
\* ------------------------------------------------------------------------
Seg(s, e, txt, spk) == [start |-> s, end |-> e, text |-> txt, speaker |-> spk]

\* str.strip() on the texts the pipeline results use
Strip(txt) == IF txt = "  " THEN "" ELSE txt

\* what the speech pipeline can return as result["segments"]
PipelineResults ==
  { <<>>,
    << Seg(2, 5, "  ", "SPEAKER_01") >>,
    << Seg(0, 2, "hello", "SPEAKER_00") >>,
    << Seg(0, 2, "hello", "SPEAKER_00"), Seg(0, 2, "hello", "SPEAKER_00") >>,
    << Seg(0, 2, "hello", "SPEAKER_00"), Seg(2, 5, "  ", "SPEAKER_01") >> }

\* ------------------------------------------------------------------------
\* Embeddings: vectors of exact rationals << numerator, denominator >>
\* ------------------------------------------------------------------------
RECURSIVE GCD(_, _)
GCD(a, b) == IF b = 0 THEN a ELSE GCD(b, a % b)

Rat(n, d) == LET g == GCD(n, d) IN << n \div g, d \div g >>
RatAdd(p, q) == Rat(p[1] * q[2] + q[1] * p[2], p[2] * q[2])
RatDiv(p, k) == Rat(p[1], p[2] * k)

\* None: no vector
NoEmbedding == <<>>

VecAdd(u, v) == [i \in 1..Len(u) |-> RatAdd(u[i], v[i])]

RECURSIVE VecSum(_)
VecSum(vs) == IF Len(vs) = 1 THEN vs[1] ELSE VecAdd(vs[1], VecSum(Tail(vs)))

\* np.mean(np.array(vs), axis=0) of a non-empty list of vectors
VecMean(vs) == LET t == VecSum(vs) IN [i \in 1..Len(t) |-> RatDiv(t[i], Len(vs))]

\* the vectors the embedding extractor produces
EmbeddingPool == { << Rat(1, 1), Rat(0, 1) >>, << Rat(0, 1), Rat(1, 1) >> }

\* ------------------------------------------------------------------------
\* The speaker library
\* ------------------------------------------------------------------------
Users == 1..MaxUsers
SpeakerIds == 1..MaxSpeakers
ProfileIds == 1..MaxProfiles
SegmentIds == 1..(MaxSpeakers + 1)
\* None, for ids
NoId == 0
NoName == ""
Names == { "Alice", "Bob" }

NoSpeakerRow ==
  [exists |-> FALSE, media_file_id |-> NoId, user_id |-> NoId, name |-> NoName,
   display_name |-> NoName, verified |-> FALSE, suggested_name |-> NoName,
   confidence |-> NoId, profile_id |-> NoId]

\* a Speaker as the transcription leaves it (create_speaker_mapping)
FreshSpeaker(f, u, label) ==
  [NoSpeakerRow EXCEPT !.exists = TRUE, !.media_file_id = f, !.user_id = u,
                       !.name = label]

NoProfileRow == [exists |-> FALSE, user_id |-> NoId, name |-> NoName,
                 embedding |-> NoEmbedding]

\* the last completed request: what was asked, its outcome, the profiles whose
\* consolidated embedding it recomputed, whether the embedding store answered,
\* and the response of a listing
NoOperation == [op |-> "none", status |-> "none", speaker |-> NoId, target |-> NoId,
                recomputed |-> {}, store |-> "none", listing |-> <<>>]

Operation(o, st, a, b) ==
  [NoOperation EXCEPT !.op = o, !.status = st, !.speaker = a, !.target = b]

EmptyLibrary ==
  [speaker |-> [s \in SpeakerIds |-> NoSpeakerRow],
   segment |-> [g \in SegmentIds |-> [media_file_id |-> NoId, speaker_id |-> NoId]],
   embedding |-> [s \in SpeakerIds |-> NoEmbedding],
   profile |-> [q \in ProfileIds |-> NoProfileRow],
   ops |-> 0,
   last |-> NoOperation]

\* ------------------------------------------------------------------------
\* The task and file inventory the monitor reads; times are in seconds
\* ------------------------------------------------------------------------
\* None, for timestamps
NoTime == -1
SecondsPerMinute == 60
SecondsPerHour == 3600
\* task_detection_service.py 84: timedelta(minutes=5)
StuckFileMinutes == 5

TaskTypes == { "transcription", "summarization" }

\* task_recovery_config, or the override handed to TaskDetectionService: the
\* staleness threshold and the maximum durations, in seconds; the orphan
\* threshold and the recovery age threshold, in hours
TaskRecoveryConfigs ==
  { [STALENESS_THRESHOLD |-> 300,
     MAX_TASK_DURATIONS |-> [transcription |-> 450, default |-> 150],
     ORPHANED_TASK_THRESHOLD |-> 1, FILE_RECOVERY_AGE_THRESHOLD |-> 1],
    [STALENESS_THRESHOLD |-> 150,
     MAX_TASK_DURATIONS |-> [transcription |-> 300, default |-> 150],
     ORPHANED_TASK_THRESHOLD |-> 1, FILE_RECOVERY_AGE_THRESHOLD |-> 1] }

NoTaskEntry == [status |-> "none", media_file_id |-> NoId, task_type |-> "none",
                created_at |-> NoTime, updated_at |-> NoTime]

\* the user who uploaded a Recording
UploaderOf(f) == ((f - 1) % MaxUsers) + 1

\* a MediaFile as the upload leaves it
UploadedFile(f) ==
  [status |-> "pending", user_id |-> UploaderOf(f), upload_time |-> 0,
   task_started_at |-> NoTime, task_last_update |-> NoTime]

\* what the last sweep and the last recovery listing found, until the
\* inventory is written again
NoScans ==
  [done |-> FALSE, stuck_tasks |-> {}, stuck_files |-> {}, abandoned |-> {},
   orphaned |-> {}, listed |-> FALSE, user_id |-> NoId, problem_files |-> {}]

MonitorWith(cfg) ==
  [now |-> 0, writes |-> 0, config |-> cfg,
   task |-> [t \in Tasks |-> NoTaskEntry],
   file |-> [f \in Files |-> UploadedFile(f)],
   scans |-> NoScans]

EmptyMonitor ==
  MonitorWith(CHOOSE cfg \in TaskRecoveryConfigs : cfg.STALENESS_THRESHOLD = 300)

\* ------------------------------------------------------------------------
\* State
\* ------------------------------------------------------------------------
VARIABLES
  tasks,      \* Task table: task id -> row (status "none": no row yet)
  files,      \* MediaFile table: file id -> row
  segments,   \* TranscriptSegment table: sequence of rows, in insertion order
  speakers,   \* Speaker table: set of rows
  nextTask,   \* the id Celery gives the next task (self.request.id)
  queued,     \* transcribe_audio messages waiting in the broker
  run,        \* per worker: the frame of its current run of transcribe_audio_task
  lib,        \* the speaker library: Speaker, SpeakerProfile and TranscriptSegment
              \* rows of the transcribed Recordings, and the embedding store
  mon         \* the consistency monitor's view: clock, Task and MediaFile rows, last scan

vars == << tasks, files, segments, speakers, nextTask, queued, run, lib, mon >>

NoTaskRow ==
  [file |-> NoFile, status |-> "none", progress |-> 0, error_message |-> NoMsg,
   completed |-> FALSE]

\* a MediaFile after its upload: its object is in the storage, it has no
\* document in the search index, and no delete request was made for it
NewFileRow ==
  [status |-> "pending", last_error_message |-> NoMsg, active_task_id |-> NoTask,
   duration |-> 0, stored |-> TRUE, indexed |-> FALSE, deleted |-> FALSE,
   delete_request |-> "none", delete_response |-> "none"]

NoReturn == [status |-> "none", error_type |-> "none", message |-> NoMsg]
NoStageExc == [stage |-> "none", exc |-> NoExc]

\* the frame of a run: its position, its locals, and what it has done so far
NewRun(t, f, l) ==
  [pc |-> l,                 \* position in transcribe_audio_task
   task_id |-> t,
   file_id |-> f,
   exc |-> NoExc,            \* the exception `e` bound by the handler the run is in
   error_message |-> NoMsg,  \* error_msg / error_message of the branch or handler
   audio |-> "none",         \* what whisperx.load_audio decoded
   result |-> <<>>,          \* result["segments"] of process_full_pipeline
   ret |-> NoReturn,         \* the dict the run returned
   notifs |-> <<>>,          \* percents of the progress notifications sent
   finals |-> <<>>,          \* completion / error notifications sent
   stages |-> <<>>,          \* stages started, in order
   stageExc |-> NoStageExc,  \* the first exception a stage raised to its caller
   termWrites |-> <<>>,      \* terminal statuses written to the Task row
   cancelled |-> FALSE,      \* a forced delete cancelled the run's Task
   afterCancel |-> {},       \* stages started and statuses written once cancelled
   fileErrors |-> 0,         \* update_media_file_status(ERROR) calls that returned
   device |-> "free",        \* "held" while a model of a stage is on the device
   startedHeld |-> {}]       \* stages started while the device was still held

\* an empty database, idle workers and n task messages in the broker
InitWith(n) ==
  /\ lib = EmptyLibrary
  /\ mon = EmptyMonitor
  /\ queued = n
  /\ tasks = [t \in Tasks |-> NoTaskRow]
  /\ files = [f \in Files |-> NewFileRow]
  /\ segments = <<>>
  /\ speakers = {}
  /\ nextTask = 1
  /\ run = [w \in Workers |-> NewRun(NoTask, NoFile, "idle")]

Init == InitWith(MaxTasks)

\* ------------------------------------------------------------------------
\* Persistence helpers (app.utils.task_utils)
\* ------------------------------------------------------------------------
ActiveStatuses == {"pending", "in_progress"}
TerminalStatuses == {"completed", "failed"}

\* create_task_record(db, task_id, user_id, file_id, "transcription")
CreateTaskRecord(tbl, t, f) ==
  [tbl EXCEPT ![t] = [file |-> f, status |-> "pending", progress |-> 0,
                      error_message |-> NoMsg, completed |-> FALSE]]

\* update_task_status(db, task_id, status, progress=None, error_message=None,
\* completed=False); None is the empty sequence
UpdateTaskStatus(tbl, t, st, prog, err, comp) ==
  IF tbl[t].status = "none" THEN tbl
  ELSE [tbl EXCEPT ![t] =
          [file |-> @.file,
           status |-> st,
           progress |-> IF prog = <<>> THEN @.progress ELSE prog[1],
           error_message |-> IF err = <<>> THEN @.error_message ELSE err[1],
           completed |-> @.completed \/ comp]]

\* update_media_file_status(db, file_id, status)
UpdateMediaFileStatus(tbl, f, st) ==
  IF f \in Files THEN [tbl EXCEPT ![f].status = st] ELSE tbl

\* ------------------------------------------------------------------------
\* Transcript storage (tasks/transcription/storage.py) and the speaker
\* helpers of the assignment step
\* ------------------------------------------------------------------------
SpeakerRow(f, label) == [media_file_id |-> f, name |-> label]

\* extract_unique_speakers(result["segments"])
ExtractUniqueSpeakers(segs) == { segs[i].speaker : i \in 1..Len(segs) }

\* create_speaker_mapping(db, user_id, file_id, unique_speakers): one Speaker
\* per distinct diarization label of the Recording
CreateSpeakerMapping(tbl, f, labels) == tbl \cup { SpeakerRow(f, l) : l \in labels }

\* process_segments_with_speakers(result["segments"], speaker_mapping)
ProcessSegments(segs, f) ==
  [i \in 1..Len(segs) |->
     [start |-> segs[i].start, end |-> segs[i].end, text |-> segs[i].text,
      speaker |-> segs[i].speaker, speaker_id |-> SpeakerRow(f, segs[i].speaker)]]

SegmentRow(f, seg) ==
  [media_file_id |-> f, start_time |-> seg.start, end_time |-> seg.end,
   text |-> seg.text, speaker_id |-> seg.speaker_id]

RECURSIVE InsertSegments(_, _, _)
InsertSegments(tbl, f, segs) ==
  IF segs = <<>> THEN tbl
  ELSE InsertSegments(Append(tbl, SegmentRow(f, Head(segs))), f, Tail(segs))

OtherFileRow(f, r) == r.media_file_id # f

\* save_transcript_segments without the delete of the existing rows
SaveWithoutDelete(tbl, f, segs) == InsertSegments(tbl, f, segs)

\* save_transcript_segments(db, file_id, segments)
SaveTranscriptSegments(tbl, f, segs) ==
  InsertSegments(SelectSeq(tbl, LAMBDA r : OtherFileRow(f, r)), f, segs)

\* update_media_file_transcription_status(db, file_id, segments, language)
UpdateMediaFileTranscriptionStatus(tbl, f, segs) ==
  IF f \notin Files THEN tbl
  ELSE [tbl EXCEPT ![f].duration = IF segs # <<>> THEN segs[Len(segs)].end ELSE 0,
                   ![f].status = "completed"]

\* the content check without str.strip()
HasContentNoStrip(segs) == \E i \in 1..Len(segs) : segs[i].text # ""

\* core.py 214-218
HasContent(segs) == \E i \in 1..Len(segs) : Strip(segs[i].text) # ""

\* ------------------------------------------------------------------------
\* Control flow of transcribe_audio_task
\* ------------------------------------------------------------------------
MainLine ==
  << "set_processing", "notify_processing", "create_task", "p10", "download",
     "p25", "n25", "audio_prepare",
     "p40", "n40", "cb42p", "cb42n", "speech_to_text", "cb50p", "cb50n",
     "temporal_align", "cb55p", "cb55n", "diarize", "cb65p", "cb65n",
     "assign_speakers", "validate",
     "n68", "speaker_map", "p72", "n72", "p75", "n75", "save_segments",
     "file_completed", "p78", "release1", "n78", "embed_and_match", "p82",
     "embed_cleanup", "release2", "p85", "n85", "index", "n95", "completed",
     "notify_done", "trigger", "done" >>

NoAudioLine == << "na_task", "na_file", "na_msg", "na_notify", "done" >>
NoSpeechLine == << "ns_task", "ns_file", "ns_msg", "ns_notify", "done" >>
PermissionLine == << "pe_task", "pe_file", "pe_msg", "pe_notify", "done" >>
GenericLine == << "ge_task", "ge_file", "ge_msg", "ge_notify", "done" >>
OuterLine == << "oe_file", "oe_task", "oe_notify", "done" >>

Lines == { MainLine, NoAudioLine, NoSpeechLine, PermissionLine, GenericLine, OuterLine }

Labels(line) == { line[i] : i \in 1..Len(line) } \ {"done"}

\* the statement that follows label l when l completes normally
Succ(l) ==
  LET line == CHOOSE s \in Lines : l \in Labels(s)
      i == CHOOSE j \in 1..Len(line) : line[j] = l
  IN line[i + 1]

\* the progress table with the first callback value below the value before it
ProgressAtLowCallback(l) ==
  CASE l = "p10" -> 10
    [] l = "p25" -> 25
    [] l = "p40" -> 40
    [] l = "cb42p" -> 24
    [] l = "cb50p" -> 50
    [] l = "cb55p" -> 55
    [] l = "cb65p" -> 65
    [] l = "p72" -> 72
    [] l = "p75" -> 75
    [] l = "p78" -> 78
    [] l = "p82" -> 82
    [] l = "p85" -> 85

\* update_task_status(db, task_id, "in_progress", progress=...) calls
ProgressAt(l) ==
  CASE l = "p10" -> 10
    [] l = "p25" -> 25
    [] l = "p40" -> 40
    [] l = "cb42p" -> 42
    [] l = "cb50p" -> 50
    [] l = "cb55p" -> 55
    [] l = "cb65p" -> 65
    [] l = "p72" -> 72
    [] l = "p75" -> 75
    [] l = "p78" -> 78
    [] l = "p82" -> 82
    [] l = "p85" -> 85

ProgressLabels ==
  { "p10", "p25", "p40", "cb42p", "cb50p", "cb55p", "cb65p", "p72", "p75", "p78",
    "p82", "p85" }

\* send_progress_notification(user_id, file_id, progress, message) calls
PercentAt(l) ==
  CASE l = "n25" -> 25
    [] l = "n40" -> 40
    [] l = "cb42n" -> 42
    [] l = "cb50n" -> 50
    [] l = "cb55n" -> 55
    [] l = "cb65n" -> 65
    [] l = "n68" -> 68
    [] l = "n72" -> 72
    [] l = "n75" -> 75
    [] l = "n78" -> 78
    [] l = "n85" -> 85
    [] l = "n95" -> 95

ProgressNotifyLabels ==
  { "n25", "n40", "cb42n", "cb50n", "cb55n", "cb65n", "n68", "n72", "n75", "n78",
    "n85", "n95" }

\* the try blocks a statement is in
OuterTryOnly ==
  { "set_processing", "notify_processing", "create_task", "p10", "download",
    "p25", "n25", "audio_prepare" }
EmbedTry == { "embed_and_match", "p82", "embed_cleanup" }
IndexTry == { "index" }
InnerHandlers == Labels(PermissionLine) \cup Labels(GenericLine)
OuterHandler == Labels(OuterLine)
InnerTry ==
  ((Labels(MainLine) \cup Labels(NoAudioLine) \cup Labels(NoSpeechLine))
     \ OuterTryOnly) \ (EmbedTry \cup IndexTry)

\* the dispatch with the assignment stage's exceptions swallowed like the index's
HandlerOfSwallowing(l, ty) ==
  IF l \in EmbedTry THEN "release2"
  ELSE IF l \in IndexTry \cup {"assign_speakers"} THEN "n95"
  ELSE IF l \in InnerTry THEN (IF ty = "PermissionError" THEN "pe_task" ELSE "ge_task")
  ELSE IF l \in OuterHandler THEN "done"
  ELSE "oe_file"

\* where an exception of type ty raised at label l is caught
HandlerOf(l, ty) ==
  IF l \in EmbedTry THEN "release2"
  ELSE IF l \in IndexTry THEN "n95"
  ELSE IF l \in InnerTry THEN (IF ty = "PermissionError" THEN "pe_task" ELSE "ge_task")
  ELSE IF l \in OuterHandler THEN "done"
  ELSE "oe_file"

ErrorReturn(ty, m) == [status |-> "error", error_type |-> ty, message |-> m]

\* the frame after the statement at its pc raised e: Python's dispatch to the
\* innermost enclosing handler (core.py 320, 358, 381, 410, 459, 469)
Raised(fr, e) ==
  LET h == HandlerOf(fr.pc, e.type) IN
  [fr EXCEPT
     !.pc = h,
     !.exc = IF h \in {"pe_task", "ge_task", "oe_file"} THEN e ELSE @,
     !.error_message = IF h = "pe_task" THEN e.msg
                       ELSE IF h = "ge_task" THEN FriendlyMessage(e.msg)
                       ELSE @,
     !.ret = IF h = "done" THEN ErrorReturn("none", fr.exc.msg) ELSE @]

\* the frame after the statement at its pc completed normally
Advance(fr) == [fr EXCEPT !.pc = Succ(@)]

\* the frame after update_task_status(db, task_id, st, ...) returned
WroteStatus(fr, st) ==
  [fr EXCEPT !.termWrites = IF st \in TerminalStatuses THEN Append(@, st) ELSE @,
             !.afterCancel = IF fr.cancelled THEN @ \cup {st} ELSE @]

\* the stages that load a model on the device (whisperx_service.py 122, 204,
\* 257; core.py 288), and those that release it before they return
\* (whisperx_service.py 177-178, 218-219, 267-268)
DeviceStages == { "speech_to_text", "temporal_align", "diarize", "embed_and_match" }
ReleasingStages == { "speech_to_text", "temporal_align", "diarize" }

\* the release left out
SkipMemoryCleanup(fr) == fr

\* hardware_detection.py 250-308: HardwareConfig.optimize_memory_usage()
OptimizeMemoryUsage(fr) == [fr EXCEPT !.device = "free"]

\* the frame after the stage at its pc was entered
StartedStage(fr) ==
  [fr EXCEPT !.stages = Append(@, fr.pc),
             !.afterCancel = IF fr.cancelled THEN @ \cup {fr.pc} ELSE @,
             !.startedHeld = IF fr.device = "held" THEN @ \cup {fr.pc} ELSE @,
             !.device = IF fr.pc \in DeviceStages THEN "held" ELSE @]

\* the frame after the stage it entered at label l returned
ReturnedFrom(l, fr) ==
  Advance(IF l \in ReleasingStages THEN OptimizeMemoryUsage(fr) ELSE fr)

RaisedByStage(fr, e) ==
  LET fr2 == StartedStage(fr) IN
  Raised([fr2 EXCEPT !.stageExc = IF @.stage = "none"
                                    THEN [stage |-> fr.pc, exc |-> e] ELSE @], e)

\* ------------------------------------------------------------------------
\* transcribe_audio_task: start, task record, progress, notifications
\* ------------------------------------------------------------------------
Free(w) == run[w].pc \in {"idle", "done"}
NoRunActive == \A w \in Workers : Free(w)

\* workers and not yet processed files are interchangeable: take the lowest
LowestFree(w) == Free(w) /\ \A v \in Workers : v < w => ~Free(v)
Touched(f) == files[f].status # "pending" \/ \E w \in Workers : run[w].file_id = f
LowestFresh(f) == \A g \in Files : g < f => Touched(g)

\* core.py 84-103: the MediaFile is found
Begin(w, f) ==
  /\ LowestFree(w)
  /\ LowestFresh(f)
  /\ queued > 0
  /\ nextTask <= MaxTasks
  /\ run' = [run EXCEPT ![w] = NewRun(nextTask, f, "set_processing")]
  /\ nextTask' = nextTask + 1
  /\ queued' = queued - 1
  /\ UNCHANGED << tasks, files, segments, speakers, lib, mon >>

\* a worker picks the task up while no other run is active
StartRun(w, f) == NoRunActive /\ Begin(w, f)

\* a second worker picks a task up while another run is active
StartOverlapping(w, f) == ~NoRunActive /\ Begin(w, f)

\* core.py 92-97: no MediaFile has the uuid
StartMissing(w) ==
  /\ NoRunActive
  /\ LowestFree(w)
  /\ queued > 0
  /\ nextTask <= MaxTasks
  /\ run' = [run EXCEPT ![w] =
       [NewRun(nextTask, NoFile, "done") EXCEPT
          !.ret = ErrorReturn("none", Msg("Media file not found", ""))]]
  /\ nextTask' = nextTask + 1
  /\ queued' = queued - 1
  /\ UNCHANGED << tasks, files, segments, speakers, lib, mon >>

\* core.py 106
SetProcessing(w) ==
  /\ run[w].pc = "set_processing"
  /\ files' = UpdateMediaFileStatus(files, run[w].file_id, "processing")
  /\ run' = [run EXCEPT ![w] = Advance(@)]
  /\ UNCHANGED << tasks, segments, speakers, nextTask, queued, lib, mon >>

\* core.py 109
SendProcessingNotification(w) ==
  /\ run[w].pc = "notify_processing"
  /\ run' = [run EXCEPT ![w] = Advance(@)]
  /\ UNCHANGED << tasks, files, segments, speakers, nextTask, queued, lib, mon >>

\* core.py 113
CreateTask(w) ==
  /\ run[w].pc = "create_task"
  /\ tasks' = CreateTaskRecord(tasks, run[w].task_id, run[w].file_id)
  /\ files' = [files EXCEPT ![run[w].file_id].active_task_id = run[w].task_id]
  /\ run' = [run EXCEPT ![w] = Advance(@)]
  /\ UNCHANGED << segments, speakers, nextTask, queued, lib, mon >>

\* core.py 114, 149, 165, 172, 256, 264, 273, 308, 333
UpdateProgress(w) ==
  /\ run[w].pc \in ProgressLabels
  /\ tasks' = UpdateTaskStatus(tasks, run[w].task_id, "in_progress",
                               << ProgressAt(run[w].pc) >>, <<>>, FALSE)
  /\ run' = [run EXCEPT ![w] = Advance(WroteStatus(@, "in_progress"))]
  /\ UNCHANGED << files, segments, speakers, nextTask, queued, lib, mon >>

\* core.py 151, 167, 173, 251, 258, 266, 284, 335, 362
SendProgressNotification(w) ==
  /\ run[w].pc \in ProgressNotifyLabels
  /\ run' = [run EXCEPT ![w] =
       Advance([@ EXCEPT !.notifs = Append(@, PercentAt(run[w].pc))])]
  /\ UNCHANGED << tasks, files, segments, speakers, nextTask, queued, lib, mon >>

\* core.py 118-144: download, temp file, metadata (its errors are swallowed)
Download(w) ==
  /\ run[w].pc = "download"
  /\ run' = [run EXCEPT ![w] = Advance(@)]
  /\ UNCHANGED << tasks, files, segments, speakers, nextTask, queued, lib, mon >>

\* ------------------------------------------------------------------------
\* Stages
\* ------------------------------------------------------------------------
\* the stage at label l starts and returns
StageReturns(w, l) ==
  /\ run[w].pc = l
  /\ run' = [run EXCEPT ![w] = ReturnedFrom(l, StartedStage(@))]
  /\ UNCHANGED << tasks, files, segments, speakers, nextTask, queued, lib, mon >>

\* the stage at label l starts and raises e to its caller
StageRaises(w, l, e) ==
  /\ run[w].pc = l
  /\ run' = [run EXCEPT ![w] = RaisedByStage(@, e)]
  /\ UNCHANGED << tasks, files, segments, speakers, nextTask, queued, lib, mon >>

RawExc(d) == Exc("Exception", Msg("", d))

\* the failures each black-box call is tried with
ErrorsOf(call) ==
  CASE call = "prepare_audio" -> { "ffmpeg exited with code 1" }
    [] call = "load_model" -> { "failed to download model weights" }
    [] call = "load_audio" -> { "No module named 'librosa'", "ffmpeg exited with code 1" }
    [] call = "transcribe" -> { "CUDA out of memory" }
    [] call = "align" -> { "libcudnn_ops_infer.so.8: cannot open shared object file" }
    [] call = "diarize" -> Details
    [] call = "assign" -> { "GPU device lost" }
    [] call = "embed" -> { "CUDA out of memory" }
    [] call = "index" -> { "ffmpeg exited with code 1" }

\* core.py 152-154
AudioPrepare(w) == StageReturns(w, "audio_prepare")

AudioPrepareRaises(w, d) == StageRaises(w, "audio_prepare", RawExc(d))

\* whisperx_service.py 143-152: the wrapper around load_audio failures
LoadAudioError(d) ==
  IF "librosa" \in KwOf(d)
  THEN Exc("ValueError", Msg("Audio file could not be processed.", ""))
  ELSE Exc("ValueError", Msg("Unable to load audio content: ", d))

\* whisperx_service.py 165-169
TranscribeError(d) == Exc("ValueError", Msg("Audio transcription failed: ", d))

\* whisperx_service.py 77-181: transcribe_audio returns
SpeechToText(w, a) ==
  /\ a \in {"silent", "sound"}
  /\ run[w].pc = "speech_to_text"
  /\ run' = [run EXCEPT ![w] =
       ReturnedFrom("speech_to_text", StartedStage([@ EXCEPT !.audio = a]))]
  /\ UNCHANGED << tasks, files, segments, speakers, nextTask, queued, lib, mon >>

\* whisperx_service.py 122: load_model raises
SpeechToTextLoadModelRaises(w, d) == StageRaises(w, "speech_to_text", RawExc(d))

\* whisperx_service.py 127-141: the audio is empty, or shorter than 100 ms
SpeechToTextNoAudio(w, a) ==
  /\ a \in {"empty", "short"}
  /\ run[w].pc = "speech_to_text"
  /\ run' = [run EXCEPT ![w] =
       RaisedByStage([@ EXCEPT !.audio = a],
         LoadAudioError(IF a = "empty"
                        THEN "Audio file appears to be empty or corrupted"
                        ELSE "Audio file is too short to contain meaningful content"))]
  /\ UNCHANGED << tasks, files, segments, speakers, nextTask, queued, lib, mon >>

\* whisperx_service.py 127, 143-152: load_audio raises
SpeechToTextLoadAudioRaises(w, d) ==
  StageRaises(w, "speech_to_text", LoadAudioError(d))

\* whisperx_service.py 154-169: model.transcribe raises
SpeechToTextTranscribeRaises(w, d) ==
  /\ run[w].pc = "speech_to_text"
  /\ run' = [run EXCEPT ![w] = RaisedByStage([@ EXCEPT !.audio = "sound"],
                                             TranscribeError(d))]
  /\ UNCHANGED << tasks, files, segments, speakers, nextTask, queued, lib, mon >>

\* whisperx_service.py 183-222
TemporalAlign(w) == StageReturns(w, "temporal_align")

TemporalAlignRaises(w, d) == StageRaises(w, "temporal_align", RawExc(d))

\* whisperx_service.py 274-331: what perform_speaker_diarization re-raises
DiarizationError(d) ==
  LET kw == KwOf(d) IN
  IF "401" \in kw \/ "unauthorized" \in kw THEN Exc("PermissionError", GatedMsg)
  ELSE IF "libcudnn" \in kw
    THEN Exc("RuntimeError",
             Msg("CUDA cuDNN library compatibility error detected. Technical details: ", d))
  ELSE IF "cuda" \in kw \/ "gpu" \in kw
    THEN Exc("RuntimeError", Msg("GPU processing error during speaker diarization: ", d))
  ELSE RawExc(d)

\* whisperx_service.py 224-272
Diarize(w) == StageReturns(w, "diarize")

DiarizeRaises(w, d) == StageRaises(w, "diarize", DiarizationError(d))

\* whisperx_service.py 333-353, 390-412: silence transcribes to no segment
AssignSpeakers(w, r) ==
  /\ r \in PipelineResults
  /\ run[w].audio = "silent" => r = <<>>
  /\ run[w].pc = "assign_speakers"
  /\ run' = [run EXCEPT ![w] =
       Advance(OptimizeMemoryUsage(StartedStage([@ EXCEPT !.result = r])))]
  /\ UNCHANGED << tasks, files, segments, speakers, nextTask, queued, lib, mon >>

AssignSpeakersRaises(w, d) == StageRaises(w, "assign_speakers", RawExc(d))

\* ------------------------------------------------------------------------
\* Validation of the pipeline result and the four failure branches
\* ------------------------------------------------------------------------
\* core.py 183-189
ValidateNoAudio(w) ==
  /\ run[w].pc = "validate"
  /\ run[w].result = <<>>
  /\ run' = [run EXCEPT ![w] = [@ EXCEPT !.pc = "na_task", !.error_message = NoAudioMsg]]
  /\ UNCHANGED << tasks, files, segments, speakers, nextTask, queued, lib, mon >>

\* core.py 214-226
ValidateNoSpeech(w) ==
  /\ run[w].pc = "validate"
  /\ run[w].result # <<>>
  /\ ~HasContent(run[w].result)
  /\ run' = [run EXCEPT ![w] = [@ EXCEPT !.pc = "ns_task", !.error_message = NoSpeechMsg]]
  /\ UNCHANGED << tasks, files, segments, speakers, nextTask, queued, lib, mon >>

\* core.py 183, 220: both checks pass
ValidateOk(w) ==
  /\ run[w].pc = "validate"
  /\ run[w].result # <<>>
  /\ HasContent(run[w].result)
  /\ run' = [run EXCEPT ![w] = Advance(@)]
  /\ UNCHANGED << tasks, files, segments, speakers, nextTask, queued, lib, mon >>

FailTaskLabels == { "na_task", "ns_task", "pe_task", "ge_task" }
FailFileLabels == { "na_file", "ns_file", "pe_file", "ge_file" }
StoreErrorLabels == { "na_msg", "ns_msg", "pe_msg", "ge_msg" }
SendErrorLabels == { "na_notify", "ns_notify", "pe_notify", "ge_notify" }

\* core.py 192-198, 229-235, 389-395, 442-448
MarkTaskFailed(w) ==
  /\ run[w].pc \in FailTaskLabels
  /\ tasks' = UpdateTaskStatus(tasks, run[w].task_id, "failed", <<>>,
                               << run[w].error_message >>, TRUE)
  /\ run' = [run EXCEPT ![w] = Advance(WroteStatus(@, "failed"))]
  /\ UNCHANGED << files, segments, speakers, nextTask, queued, lib, mon >>

\* core.py 199, 236, 396, 449
MarkFileError(w) ==
  /\ run[w].pc \in FailFileLabels
  /\ files' = UpdateMediaFileStatus(files, run[w].file_id, "error")
  /\ run' = [run EXCEPT ![w] = Advance([@ EXCEPT !.fileErrors = @ + 1])]
  /\ UNCHANGED << tasks, segments, speakers, nextTask, queued, lib, mon >>

\* core.py 201-204, 238-241, 398-401, 451-454
StoreLastError(w) ==
  /\ run[w].pc \in StoreErrorLabels
  /\ files' = [files EXCEPT ![run[w].file_id].last_error_message = run[w].error_message]
  /\ run' = [run EXCEPT ![w] = Advance(@)]
  /\ UNCHANGED << tasks, segments, speakers, nextTask, queued, lib, mon >>

ErrorTypeAt(l) ==
  CASE l = "na_notify" -> "no_valid_audio"
    [] l = "ns_notify" -> "no_speech_content"
    [] l = "pe_notify" -> "gated_model_access"
    [] l = "ge_notify" -> "none"

\* core.py 206-211, 243-248, 403-408, 456-457
SendErrorNotification(w) ==
  /\ run[w].pc \in SendErrorLabels
  /\ run' = [run EXCEPT ![w] =
       [@ EXCEPT !.pc = "done",
                 !.finals = Append(@, "error"),
                 !.ret = ErrorReturn(ErrorTypeAt(run[w].pc), run[w].error_message)]]
  /\ UNCHANGED << tasks, files, segments, speakers, nextTask, queued, lib, mon >>

\* core.py 464
OuterMarkFileError(w) ==
  /\ run[w].pc = "oe_file"
  /\ files' = UpdateMediaFileStatus(files, run[w].file_id, "error")
  /\ run' = [run EXCEPT ![w] = Advance([@ EXCEPT !.fileErrors = @ + 1])]
  /\ UNCHANGED << tasks, segments, speakers, nextTask, queued, lib, mon >>

\* core.py 465
OuterMarkTaskFailed(w) ==
  /\ run[w].pc = "oe_task"
  /\ tasks' = UpdateTaskStatus(tasks, run[w].task_id, "failed", <<>>,
                               << run[w].exc.msg >>, TRUE)
  /\ run' = [run EXCEPT ![w] = Advance(WroteStatus(@, "failed"))]
  /\ UNCHANGED << files, segments, speakers, nextTask, queued, lib, mon >>

\* core.py 467-472
OuterSendErrorNotification(w) ==
  /\ run[w].pc = "oe_notify"
  /\ run' = [run EXCEPT ![w] =
       [@ EXCEPT !.pc = "done",
                 !.finals = Append(@, "error"),
                 !.ret = ErrorReturn("none", run[w].exc.msg)]]
  /\ UNCHANGED << tasks, files, segments, speakers, nextTask, queued, lib, mon >>

\* ------------------------------------------------------------------------
\* Speakers, segments, embeddings, index, finalize
\* ------------------------------------------------------------------------
\* core.py 252-255
SpeakerMap(w) ==
  /\ run[w].pc = "speaker_map"
  /\ speakers' = CreateSpeakerMapping(speakers, run[w].file_id,
                                      ExtractUniqueSpeakers(run[w].result))
  /\ run' = [run EXCEPT ![w] = Advance(@)]
  /\ UNCHANGED << tasks, files, segments, nextTask, queued, lib, mon >>

\* core.py 259-261, 269
SaveSegments(w) ==
  /\ run[w].pc = "save_segments"
  /\ segments' = SaveTranscriptSegments(segments, run[w].file_id,
                                        ProcessSegments(run[w].result, run[w].file_id))
  /\ run' = [run EXCEPT ![w] = Advance(@)]
  /\ UNCHANGED << tasks, files, speakers, nextTask, queued, lib, mon >>

\* core.py 270-272
FileCompleted(w) ==
  /\ run[w].pc = "file_completed"
  /\ files' = UpdateMediaFileTranscriptionStatus(files, run[w].file_id,
                 ProcessSegments(run[w].result, run[w].file_id))
  /\ run' = [run EXCEPT ![w] = Advance(@)]
  /\ UNCHANGED << tasks, segments, speakers, nextTask, queued, lib, mon >>

\* core.py 278-282, 326-330
ReleaseDevice(w) ==
  /\ run[w].pc \in {"release1", "release2"}
  /\ run' = [run EXCEPT ![w] = Advance(OptimizeMemoryUsage(@))]
  /\ UNCHANGED << tasks, files, segments, speakers, nextTask, queued, lib, mon >>

\* core.py 288-306
EmbedAndMatch(w) == StageReturns(w, "embed_and_match")

\* core.py 320-322: logged, the run continues
EmbedAndMatchRaises(w, d) == StageRaises(w, "embed_and_match", RawExc(d))

\* core.py 316-318
EmbedCleanup(w) ==
  /\ run[w].pc = "embed_cleanup"
  /\ run' = [run EXCEPT ![w] = Advance(@)]
  /\ UNCHANGED << tasks, files, segments, speakers, nextTask, queued, lib, mon >>

\* core.py 338-357: the transcript document is written to the search index
Index(w) ==
  /\ run[w].pc = "index"
  /\ run' = [run EXCEPT ![w] = Advance(StartedStage(@))]
  /\ files' = IF run[w].file_id \in Files
              THEN [files EXCEPT ![run[w].file_id].indexed = TRUE] ELSE files
  /\ UNCHANGED << tasks, segments, speakers, nextTask, queued, lib, mon >>

\* core.py 358-359: logged, the run continues
IndexRaises(w, d) == StageRaises(w, "index", RawExc(d))

\* core.py 363-364
Complete(w) ==
  /\ run[w].pc = "completed"
  /\ tasks' = UpdateTaskStatus(tasks, run[w].task_id, "completed", << 100 >>, <<>>, TRUE)
  /\ run' = [run EXCEPT ![w] = Advance(WroteStatus(@, "completed"))]
  /\ UNCHANGED << files, segments, speakers, nextTask, queued, lib, mon >>

\* core.py 367
SendCompletionNotification(w) ==
  /\ run[w].pc = "notify_done"
  /\ run' = [run EXCEPT ![w] = Advance([@ EXCEPT !.finals = Append(@, "completed")])]
  /\ UNCHANGED << tasks, files, segments, speakers, nextTask, queued, lib, mon >>

\* core.py 373-379: the follow-up tasks' errors are swallowed
TriggerAndReturn(w) ==
  /\ run[w].pc = "trigger"
  /\ run' = [run EXCEPT ![w] =
       [@ EXCEPT !.pc = "done",
                 !.ret = [status |-> "success", error_type |-> "none", message |-> NoMsg]]]
  /\ UNCHANGED << tasks, files, segments, speakers, nextTask, queued, lib, mon >>

\* ------------------------------------------------------------------------
\* Failures of the collaborators: persistence, notifier, object storage
\* ------------------------------------------------------------------------
DbLabels ==
  { "set_processing", "create_task", "speaker_map", "save_segments",
    "file_completed", "completed", "oe_file", "oe_task" }
    \cup ProgressLabels \cup FailTaskLabels \cup FailFileLabels \cup StoreErrorLabels

NotifyLabels ==
  { "notify_processing", "notify_done", "oe_notify" }
    \cup ProgressNotifyLabels \cup SendErrorLabels

\* a session or commit raises; nothing of the statement is persisted
DbRaises(w) ==
  /\ run[w].pc \in DbLabels
  /\ run' = [run EXCEPT ![w] = Raised(@, Exc("OperationalError", DbErrorMsg))]
  /\ UNCHANGED << tasks, files, segments, speakers, nextTask, queued, lib, mon >>

\* a send_*_notification call raises
NotifyRaises(w) ==
  /\ run[w].pc \in NotifyLabels
  /\ run' = [run EXCEPT ![w] = Raised(@, Exc("ConnectionError", NotifyErrorMsg))]
  /\ UNCHANGED << tasks, files, segments, speakers, nextTask, queued, lib, mon >>

\* core.py 118: download_file raises
DownloadRaises(w) ==
  /\ run[w].pc = "download"
  /\ run' = [run EXCEPT ![w] = Raised(@, Exc("Exception", StorageErrorMsg))]
  /\ UNCHANGED << tasks, files, segments, speakers, nextTask, queued, lib, mon >>

\* ------------------------------------------------------------------------
\* Forced delete, up to the cancellation (api/endpoints/files/crud.py 450-457)
\* ------------------------------------------------------------------------
CancelledMsg == Msg("Task cancelled", "")

\* cancel_active_task(db, file_id)
CancelActiveTask(tbl, t) ==
  [tbl EXCEPT ![t].status = "failed", ![t].error_message = CancelledMsg,
              ![t].completed = TRUE]

ForceDeleteCancels(f) ==
  LET t == files[f].active_task_id IN
  /\ t \in Tasks
  /\ tasks[t].status \in ActiveStatuses
  /\ tasks' = CancelActiveTask(tasks, t)
  /\ run' = [w \in Workers |->
               IF run[w].task_id = t /\ run[w].pc # "done"
               THEN [run[w] EXCEPT !.cancelled = TRUE] ELSE run[w]]
  /\ UNCHANGED << files, segments, speakers, nextTask, queued, lib, mon >>

\* ------------------------------------------------------------------------
\* delete_media_file (api/endpoints/files/crud.py 413-488): the safety check
\* with the cancellation, then the removal; a worker may act in between
\* ------------------------------------------------------------------------
\* is_file_safe_to_delete(db, file_id): the Recording is not being processed
\* and has no pending or in_progress Execution
IsFileSafeToDelete(f) ==
  /\ files[f].status # "processing"
  /\ ~\E t \in Tasks : tasks[t].file = f /\ tasks[t].status \in ActiveStatuses

\* crud.py 449-457: cancel_active_task(db, file_id) when forced and the
\* Recording points to an Execution
CancelOnForce(tbl, f, force) ==
  LET t == files[f].active_task_id IN
  IF force /\ t # NoTask /\ tbl[t].status \in ActiveStatuses
  THEN CancelActiveTask(tbl, t) ELSE tbl

\* crud.py 426-457
DeleteCheck(f, force) ==
  /\ ~files[f].deleted
  /\ files[f].delete_request = "none"
  /\ IF ~IsFileSafeToDelete(f) /\ ~force
     THEN /\ files' = [files EXCEPT ![f].delete_response = "conflict"]
          /\ UNCHANGED << tasks, run >>
     ELSE /\ tasks' = CancelOnForce(tasks, f, force)
          /\ run' = [w \in Workers |->
                       IF /\ run[w].task_id # NoTask
                          /\ tasks[run[w].task_id].status # tasks'[run[w].task_id].status
                          /\ run[w].pc # "done"
                       THEN [run[w] EXCEPT !.cancelled = TRUE] ELSE run[w]]
          /\ files' = [files EXCEPT ![f].delete_request =
                                      IF force THEN "forced" ELSE "checked",
                                    ![f].delete_response = "none"]
  /\ UNCHANGED << segments, speakers, nextTask, queued, lib, mon >>

\* crud.py 459-488: the storage object, the search document, then the row
\* with its segments and speakers; only a failure of the last one is reported
DeleteRemove(f, storage_ok, search_ok, db_ok) ==
  /\ files[f].delete_request # "none"
  /\ files' = [files EXCEPT
       ![f].stored = IF storage_ok THEN FALSE ELSE @,
       ![f].indexed = IF search_ok THEN FALSE ELSE @,
       ![f].deleted = db_ok,
       ![f].delete_request = "none",
       ![f].delete_response = IF db_ok THEN "deleted" ELSE "error"]
  /\ segments' = IF db_ok THEN SelectSeq(segments, LAMBDA r : OtherFileRow(f, r))
                 ELSE segments
  /\ speakers' = IF db_ok THEN { r \in speakers : r.media_file_id # f } ELSE speakers
  /\ UNCHANGED << tasks, nextTask, queued, run, lib, mon >>

\* the Recording a run works on was removed
Removed(f) == f \in Files /\ files[f].deleted

\* ------------------------------------------------------------------------
\* Specifications
\* ------------------------------------------------------------------------
RunStep(w) ==
  \/ SetProcessing(w)
  \/ SendProcessingNotification(w)
  \/ CreateTask(w)
  \/ UpdateProgress(w)
  \/ SendProgressNotification(w)
  \/ Download(w)
  \/ AudioPrepare(w)
  \/ \E d \in ErrorsOf("prepare_audio") : AudioPrepareRaises(w, d)
  \/ \E a \in {"silent", "sound"} : SpeechToText(w, a)
  \/ \E d \in ErrorsOf("load_model") : SpeechToTextLoadModelRaises(w, d)
  \/ \E a \in {"empty", "short"} : SpeechToTextNoAudio(w, a)
  \/ \E d \in ErrorsOf("load_audio") : SpeechToTextLoadAudioRaises(w, d)
  \/ \E d \in ErrorsOf("transcribe") : SpeechToTextTranscribeRaises(w, d)
  \/ TemporalAlign(w)
  \/ \E d \in ErrorsOf("align") : TemporalAlignRaises(w, d)
  \/ Diarize(w)
  \/ \E d \in ErrorsOf("diarize") : DiarizeRaises(w, d)
  \/ \E r \in PipelineResults : AssignSpeakers(w, r)
  \/ \E d \in ErrorsOf("assign") : AssignSpeakersRaises(w, d)
  \/ ValidateNoAudio(w)
  \/ ValidateNoSpeech(w)
  \/ ValidateOk(w)
  \/ MarkTaskFailed(w)
  \/ MarkFileError(w)
  \/ StoreLastError(w)
  \/ SendErrorNotification(w)
  \/ OuterMarkFileError(w)
  \/ OuterMarkTaskFailed(w)
  \/ OuterSendErrorNotification(w)
  \/ SpeakerMap(w)
  \/ SaveSegments(w)
  \/ FileCompleted(w)
  \/ ReleaseDevice(w)
  \/ EmbedAndMatch(w)
  \/ \E d \in ErrorsOf("embed") : EmbedAndMatchRaises(w, d)
  \/ EmbedCleanup(w)
  \/ Index(w)
  \/ \E d \in ErrorsOf("index") : IndexRaises(w, d)
  \/ Complete(w)
  \/ SendCompletionNotification(w)
  \/ TriggerAndReturn(w)

\* runs are dispatched one at a time, and stages may raise
Next ==
  \/ \E w \in Workers, f \in Files : StartRun(w, f)
  \/ \E w \in Workers : StartMissing(w)
  \/ \E w \in Workers : RunStep(w)

Spec == Init /\ [][Next]_vars

\* Next, and a forced delete may cancel the active task of a file
CancelNext ==
  \/ Next
  \/ \E f \in Files : ForceDeleteCancels(f)

CancelSpec == Init /\ [][CancelNext]_vars

\* Recordings are processed and deleted; a run is followed until its
\* Recording is removed
DeleteNext ==
  \/ \E w \in Workers, f \in Files : ~Removed(f) /\ StartRun(w, f)
  \/ \E w \in Workers : StartMissing(w)
  \/ \E w \in Workers : ~Removed(run[w].file_id) /\ RunStep(w)
  \/ \E f \in Files, force \in BOOLEAN : DeleteCheck(f, force)
  \/ \E f \in Files, storage_ok, search_ok, db_ok \in BOOLEAN :
        DeleteRemove(f, storage_ok, search_ok, db_ok)

DeleteSpec == InitWith(MaxDeleteRuns) /\ [][DeleteNext]_vars

\* Next, and the persistence layer, the notifier and the object storage may fail
FaultNext ==
  \/ Next
  \/ \E w \in Workers : DbRaises(w)
  \/ \E w \in Workers : NotifyRaises(w)
  \/ \E w \in Workers : DownloadRaises(w)

FaultSpec == InitWith(MaxFaultRuns) /\ [][FaultNext]_vars

\* Next, and a second worker may start a run while another run is active
ConcNext ==
  \/ Next
  \/ \E w \in Workers, f \in Files : StartOverlapping(w, f)

ConcSpec == Init /\ [][ConcNext]_vars

\* ------------------------------------------------------------------------
\* The library a user finds after two Recordings were transcribed
\* ------------------------------------------------------------------------
\* Recording 1 has the Speakers 1 and 2, Recording 2 the others
FileOfSpeaker(s) == IF s <= 2 THEN 1 ELSE 2
LabelOfSpeaker(s) == IF s = 2 THEN "SPEAKER_01" ELSE "SPEAKER_00"
\* the first Speaker has two segments, every other Speaker one
SpeakerOfSegment(g) == IF g = 1 THEN 1 ELSE g - 1

Suggestion(nm, c) == [suggested_name |-> nm, confidence |-> c]
\* what the matching at the end of a transcription leaves on a Speaker:
\* nothing, a weak or a strong suggested name (confidence in hundredths)
InitialSuggestions ==
  { Suggestion(NoName, NoId), Suggestion("Alice", 40), Suggestion("Alice", 80) }

InitialLibraries ==
  { [EmptyLibrary EXCEPT
       !.speaker = [s \in SpeakerIds |->
          IF s = 1
          THEN [FreshSpeaker(FileOfSpeaker(s), 1, LabelOfSpeaker(s)) EXCEPT
                  !.suggested_name = sg.suggested_name, !.confidence = sg.confidence]
          ELSE FreshSpeaker(FileOfSpeaker(s), 1, LabelOfSpeaker(s))],
       !.segment = [g \in SegmentIds |->
          [media_file_id |-> FileOfSpeaker(SpeakerOfSegment(g)),
           speaker_id |-> SpeakerOfSegment(g)]],
       !.embedding = [s \in SpeakerIds |->
          IF s = 1 THEN e1 ELSE IF s = 2 THEN e2 ELSE e3]]
    : sg \in InitialSuggestions,
      e1 \in { CHOOSE v \in EmbeddingPool : v[1] = Rat(1, 1) },
      e2 \in EmbeddingPool \cup { NoEmbedding },
      e3 \in { CHOOSE v \in EmbeddingPool : v[1] = Rat(0, 1) } }

LibraryInit ==
  /\ lib \in InitialLibraries
  /\ mon = EmptyMonitor
  /\ queued = 0
  /\ tasks = [t \in Tasks |-> NoTaskRow]
  /\ files = [f \in Files |-> NewFileRow]
  /\ segments = <<>>
  /\ speakers = {}
  /\ nextTask = 1
  /\ run = [w \in Workers |-> NewRun(NoTask, NoFile, "idle")]

OrchestratorIdle == UNCHANGED << tasks, files, segments, speakers, nextTask, queued, run, mon >>

\* ------------------------------------------------------------------------
\* Profile embeddings (app.services.profile_embedding_service)
\* ------------------------------------------------------------------------
MembersOf(l, q) ==
  { s \in SpeakerIds : l.speaker[s].exists /\ l.speaker[s].profile_id = q }

\* the stored embeddings of the Speakers 1..k that are members of profile q
RECURSIVE MemberEmbeddings(_, _, _)
MemberEmbeddings(l, q, k) ==
  IF k = 0 THEN <<>>
  ELSE LET rest == MemberEmbeddings(l, q, k - 1) IN
       IF k \in MembersOf(l, q) /\ l.embedding[k] # NoEmbedding
       THEN Append(rest, l.embedding[k]) ELSE rest

\* the mean of the current members' stored embeddings
ConsolidatedEmbedding(l, q) ==
  LET vs == MemberEmbeddings(l, q, MaxSpeakers) IN
  IF vs = <<>> THEN NoEmbedding ELSE VecMean(vs)

\* update_profile_embedding / add_speaker_to_profile_embedding /
\* remove_speaker_from_profile_embedding: recompute from the current members
UpdateProfileEmbedding(l, q) ==
  IF q \in ProfileIds /\ l.profile[q].exists
  THEN [l EXCEPT !.profile[q].embedding = ConsolidatedEmbedding(l, q),
                 !.last.recomputed = @ \cup {q}]
  ELSE l

\* ------------------------------------------------------------------------
\* merge_speakers and delete_speaker (api/endpoints/speakers.py)
\* ------------------------------------------------------------------------
Finished(l, o) == [l EXCEPT !.ops = @ + 1, !.last = o]

\* db.delete(speaker): the row goes, segments that still reference it lose
\* the reference
DeleteSpeakerRow(l, a) ==
  [l EXCEPT !.speaker[a] = NoSpeakerRow,
            !.segment = [g \in SegmentIds |->
               IF l.segment[g].speaker_id = a
               THEN [l.segment[g] EXCEPT !.speaker_id = NoId] ELSE l.segment[g]]]

\* speakers.py 870-872
ReparentSegments(l, a, b) ==
  [l EXCEPT !.segment = [g \in SegmentIds |->
     IF l.segment[g].speaker_id = a
     THEN [l.segment[g] EXCEPT !.speaker_id = b] ELSE l.segment[g]]]

\* the averaging with the source's vector taken for the mean
TakeSourceEmbedding(x, y) == x

\* speakers.py 886-887
AverageEmbeddings(x, y) == VecMean(<< x, y >>)

\* speakers.py 875-911: ok is whether the embedding store answers
MergeEmbeddings(l, a, b, ok) ==
  IF ok /\ l.embedding[a] # NoEmbedding /\ l.embedding[b] # NoEmbedding
  THEN [l EXCEPT !.embedding[b] = AverageEmbeddings(l.embedding[a], l.embedding[b])]
  ELSE l

\* speakers.py 934-944: merge_speaker_embeddings removes the source's record
RemoveSourceEmbedding(l, a, ok) ==
  IF ok THEN [l EXCEPT !.embedding[a] = NoEmbedding] ELSE l

\* speakers.py 946-969
MergeProfileUpdates(l, a, sp, tp) ==
  LET l1 == IF sp # NoId /\ sp # tp THEN UpdateProfileEmbedding(l, sp) ELSE l
  IN IF tp # NoId THEN UpdateProfileEmbedding(l1, tp) ELSE l1

\* speakers.py 847-974
MergeSpeakers(u, a, b, ok) ==
  /\ lib.ops < MaxLibOps
  /\ lib.speaker[a].exists /\ lib.speaker[b].exists
  /\ ok \in BOOLEAN
  /\ LET sp == lib.speaker[a].profile_id
         tp == lib.speaker[b].profile_id
         started == [lib EXCEPT !.last =
                       [Operation("merge", "ok", a, b) EXCEPT
                          !.store = IF ok THEN "ok" ELSE "failed"]]
         merged == DeleteSpeakerRow(
                     MergeEmbeddings(ReparentSegments(started, a, b), a, b, ok), a)
     IN lib' =
          IF lib.speaker[a].user_id # u \/ lib.speaker[b].user_id # u
          THEN Finished(lib, Operation("merge", "forbidden", a, b))
          ELSE IF a = b
          THEN \* db.refresh(target_speaker) finds the row deleted
               [merged EXCEPT !.ops = @ + 1, !.last.status = "error"]
          ELSE [MergeProfileUpdates(RemoveSourceEmbedding(merged, a, ok), a, sp, tp)
                  EXCEPT !.ops = @ + 1]
  /\ OrchestratorIdle

\* speakers.py 33-53
DeleteSpeaker(u, a) ==
  /\ lib.ops < MaxLibOps
  /\ lib.speaker[a].exists
  /\ lib' = IF lib.speaker[a].user_id # u
            THEN Finished(lib, Operation("delete", "forbidden", a, NoId))
            ELSE Finished(DeleteSpeakerRow(lib, a), Operation("delete", "ok", a, NoId))
  /\ OrchestratorIdle

\* ------------------------------------------------------------------------
\* verify_speaker_identification (api/endpoints/speakers.py 977-1178)
\* ------------------------------------------------------------------------
FreeProfileIds(l) == { q \in ProfileIds : ~l.profile[q].exists }
\* the id the database gives the next SpeakerProfile row
NewProfileId(l) == CHOOSE q \in FreeProfileIds(l) : \A r \in FreeProfileIds(l) : q <= r

ProfilesNamed(l, u, nm) ==
  { q \in ProfileIds : l.profile[q].exists /\ l.profile[q].user_id = u
                       /\ l.profile[q].name = nm }

\* speakers.py 977-1021
AcceptSpeakerProfileMatch(u, a, q) ==
  /\ lib.ops < MaxLibOps
  /\ lib.speaker[a].exists /\ lib.profile[q].exists
  /\ lib' =
       IF lib.speaker[a].user_id # u \/ lib.profile[q].user_id # u
       THEN Finished(lib, Operation("accept", "forbidden", a, q))
       ELSE LET assigned == [Finished(lib, Operation("accept", "ok", a, q)) EXCEPT
                               !.speaker[a].profile_id = q,
                               !.speaker[a].verified = TRUE]
            IN UpdateProfileEmbedding(assigned, q)
  /\ OrchestratorIdle

\* speakers.py 1024-1057
RejectSpeakerSuggestion(u, a) ==
  /\ lib.ops < MaxLibOps
  /\ lib.speaker[a].exists
  /\ lib' =
       IF lib.speaker[a].user_id # u
       THEN Finished(lib, Operation("reject", "forbidden", a, NoId))
       ELSE LET old_profile_id == lib.speaker[a].profile_id
                rejected == [Finished(lib, Operation("reject", "ok", a, NoId)) EXCEPT
                               !.speaker[a].profile_id = NoId,
                               !.speaker[a].verified = TRUE,
                               !.speaker[a].confidence = NoId]
            IN IF old_profile_id # NoId
               THEN UpdateProfileEmbedding(rejected, old_profile_id)
               ELSE rejected
  /\ OrchestratorIdle

\* speakers.py 1060-1112
CreateNewSpeakerProfile(u, a, nm) ==
  /\ lib.ops < MaxLibOps
  /\ lib.speaker[a].exists
  /\ nm \in Names
  /\ lib.speaker[a].user_id = u /\ ProfilesNamed(lib, u, nm) = {}
       => FreeProfileIds(lib) # {}
  /\ lib' =
       IF lib.speaker[a].user_id # u
       THEN Finished(lib, Operation("create_profile", "forbidden", a, NoId))
       ELSE IF ProfilesNamed(lib, u, nm) # {}
       THEN Finished(lib, Operation("create_profile", "exists", a, NoId))
       ELSE LET q == NewProfileId(lib)
                created == [Finished(lib, Operation("create_profile", "ok", a, q)) EXCEPT
                              !.profile[q] = [NoProfileRow EXCEPT !.exists = TRUE,
                                                !.user_id = u, !.name = nm],
                              !.speaker[a].profile_id = q,
                              !.speaker[a].verified = TRUE]
            IN UpdateProfileEmbedding(created, q)
  /\ OrchestratorIdle

\* ------------------------------------------------------------------------
\* update_speaker (api/endpoints/speakers.py 505-845); the update carries a
\* display name (NoName: the field is not set) and a profile action
\* ------------------------------------------------------------------------
ProfileActions == { "none", "update_profile", "create_new_profile" }

NewProfile(u, nm) == [NoProfileRow EXCEPT !.exists = TRUE, !.user_id = u, !.name = nm]

OwnProfile(l, u, q) == q # NoId /\ l.profile[q].exists /\ l.profile[q].user_id = u

\* speakers.py 640-712
ApplyProfileAction(l, u, a, dn, pa) ==
  LET old_profile_id == l.speaker[a].profile_id IN
  IF pa = "update_profile" /\ OwnProfile(l, u, old_profile_id)
  THEN UpdateProfileEmbedding(
         [l EXCEPT !.profile[old_profile_id].name = dn,
                   !.speaker = [s \in SpeakerIds |->
                      IF /\ l.speaker[s].exists /\ l.speaker[s].user_id = u
                         /\ l.speaker[s].profile_id = old_profile_id
                      THEN [l.speaker[s] EXCEPT !.display_name = dn]
                      ELSE l.speaker[s]]],
         old_profile_id)
  ELSE IF pa = "create_new_profile"
  THEN LET q == NewProfileId(l) IN
       [l EXCEPT !.profile[q] = NewProfile(u, dn), !.speaker[a].profile_id = q]
  ELSE l

\* speakers.py 505-568
HandleProfileEmbeddingUpdates(l, old, new, was_auto_labeled, display_name_changed) ==
  LET l1 == IF was_auto_labeled /\ display_name_changed /\ old # NoId /\ old # new
            THEN UpdateProfileEmbedding(l, old) ELSE l
  IN IF new # NoId /\ new # old THEN UpdateProfileEmbedding(l1, new)
     ELSE IF old # NoId /\ new = NoId THEN UpdateProfileEmbedding(l1, old)
     ELSE IF display_name_changed /\ new # NoId /\ new = old
     THEN UpdateProfileEmbedding(l1, new)
     ELSE l1

\* auto_create_or_assign_profile: the labeled Speaker ends in a profile of the
\* user that carries the display name, created when there is none; the
\* profiles whose members changed are recomputed
AutoCreateOrAssignProfile(l, u, a, dn) ==
  LET same == ProfilesNamed(l, u, dn)
      left == l.speaker[a].profile_id
  IN IF left \in same THEN l
     ELSE LET q == IF same # {} THEN CHOOSE x \in same : \A y \in same : x <= y
                   ELSE NewProfileId(l)
              assigned == [l EXCEPT
                             !.profile[q] = IF same # {} THEN @ ELSE NewProfile(u, dn),
                             !.speaker[a].profile_id = q]
          IN UpdateProfileEmbedding(UpdateProfileEmbedding(assigned, left), q)

\* trigger_retroactive_matching: the user's other Speakers that carry the same
\* display name and have no profile join the labeled Speaker's profile
TriggerRetroactiveMatching(l, u, a, dn) ==
  LET q == l.speaker[a].profile_id
      matched == { s \in SpeakerIds \ {a} :
                     /\ l.speaker[s].exists /\ l.speaker[s].user_id = u
                     /\ l.speaker[s].display_name = dn /\ l.speaker[s].profile_id = NoId }
  IN IF matched = {} THEN l
     ELSE UpdateProfileEmbedding(
            [l EXCEPT !.speaker = [s \in SpeakerIds |->
               IF s \in matched THEN [l.speaker[s] EXCEPT !.profile_id = q]
               ELSE l.speaker[s]]], q)

\* whether the request inserts a SpeakerProfile row
CreatesProfile(l, u, a, dn, pa) ==
  /\ dn # NoName
  /\ \/ pa = "create_new_profile"
     \/ /\ ProfilesNamed(l, u, dn) = {}
        /\ ~(pa = "update_profile" /\ OwnProfile(l, u, l.speaker[a].profile_id))

\* speakers.py 609-845
UpdateSpeaker(u, a, dn, pa) ==
  /\ lib.ops < MaxLibOps
  /\ lib.speaker[a].exists
  /\ dn \in Names \cup { NoName } /\ pa \in ProfileActions
  /\ dn = NoName => pa = "none"
  /\ lib.speaker[a].user_id = u /\ CreatesProfile(lib, u, a, dn, pa)
       => FreeProfileIds(lib) # {}
  /\ lib' =
       IF lib.speaker[a].user_id # u
       THEN Finished(lib, Operation("update", "forbidden", a, NoId))
       ELSE LET old_profile_id == lib.speaker[a].profile_id
                was_auto_labeled == /\ lib.speaker[a].suggested_name # NoName
                                    /\ ~lib.speaker[a].verified
                started == Finished(lib, Operation("update", "ok", a, NoId))
                named == IF dn = NoName THEN started
                         ELSE [started EXCEPT !.speaker[a].display_name = dn]
                acted == IF dn = NoName THEN named
                         ELSE ApplyProfileAction(named, u, a, dn, pa)
                verified == IF dn = NoName THEN acted
                            ELSE [acted EXCEPT !.speaker[a].verified = TRUE,
                                               !.speaker[a].suggested_name = NoName,
                                               !.speaker[a].confidence = NoId]
                updated == HandleProfileEmbeddingUpdates(
                             verified, old_profile_id, verified.speaker[a].profile_id,
                             was_auto_labeled, dn # NoName)
            IN IF dn = NoName THEN updated
               ELSE TriggerRetroactiveMatching(
                      AutoCreateOrAssignProfile(updated, u, a, dn), u, a, dn)
  /\ OrchestratorIdle

\* ------------------------------------------------------------------------
\* update_single_transcript_segment (api/endpoints/files/crud.py 491-607)
\* ------------------------------------------------------------------------
\* the user a Recording belongs to
OwnerOfFile(f) == 1

\* crud.py 499-508
UsedSpeakerIds(l, f) ==
  { l.segment[g].speaker_id :
      g \in { h \in SegmentIds : /\ l.segment[h].media_file_id = f
                                 /\ l.segment[h].speaker_id # NoId } }

\* crud.py 511-518
UnusedSpeakers(l, f) ==
  { s \in SpeakerIds : /\ l.speaker[s].exists /\ l.speaker[s].media_file_id = f
                       /\ s \notin UsedSpeakerIds(l, f) }

RECURSIVE DeleteSpeakerRows(_, _)
DeleteSpeakerRows(l, ss) ==
  IF ss = {} THEN l
  ELSE LET s == CHOOSE x \in ss : TRUE
       IN DeleteSpeakerRows(DeleteSpeakerRow(l, s), ss \ {s})

\* crud.py 491-523
CleanupUnusedSpeakers(l, f) == DeleteSpeakerRows(l, UnusedSpeakers(l, f))

\* the request names segment g of its Recording and, when sets is true, the
\* Speaker b to attribute it to (NoId: no Speaker)
UpdateSingleTranscriptSegment(u, g, sets, b) ==
  /\ lib.ops < MaxLibOps
  /\ sets \in BOOLEAN /\ b \in SpeakerIds \cup { NoId }
  /\ ~sets => b = NoId
  /\ b # NoId => lib.speaker[b].exists
  /\ LET f == lib.segment[g].media_file_id IN
     lib' =
       IF OwnerOfFile(f) # u
       THEN Finished(lib, Operation("segment", "forbidden", g, b))
       ELSE IF b # NoId /\ lib.speaker[b].media_file_id # f
       THEN Finished(lib, Operation("segment", "bad_request", g, b))
       ELSE LET started == Finished(lib, Operation("segment", "ok", g, b))
                updated == IF sets THEN [started EXCEPT !.segment[g].speaker_id = b]
                           ELSE started
            IN CleanupUnusedSpeakers(updated, f)
  /\ OrchestratorIdle

\* ------------------------------------------------------------------------
\* list_speakers (api/endpoints/speakers.py 212-482), called with its default
\* arguments: no file filter, verified_only and for_filter off
\* ------------------------------------------------------------------------
\* confidences are in hundredths
SuggestionThreshold == 50
HideMargin == 30
MaxFileAppearances == 8

IndividualMatch(f, c) == [media_file_id |-> f, confidence |-> c]
Match(nm, c, ims) == [name |-> nm, confidence |-> c, individual_matches |-> ims]

\* what consolidate_suggestions and format_for_api hand over for one Speaker:
\* consolidated suggestions at or above the threshold it was called with,
\* highest confidence first, each with the matches it was consolidated from
RawCrossVideoMatches ==
  { <<>>,
    << Match("Bob", 90, << IndividualMatch(2, 30), IndividualMatch(1, 90) >>) >>,
    << Match("Bob", 80, << IndividualMatch(2, 60) >>),
       Match("Alice", 60, << IndividualMatch(1, 40), IndividualMatch(2, 90) >>) >> }

\* speakers.py 294-309
VoiceSuggestions(raw) ==
  LET Keep(m) == m.confidence >= SuggestionThreshold /\ m.name # NoName
      kept == SelectSeq(raw, Keep)
  IN [i \in 1..Len(kept) |-> [name |-> kept[i].name, confidence |-> kept[i].confidence]]

\* the individual matches of every suggestion, kept without a threshold
KeepAllMatches(ims) == ims

\* speakers.py 327
KeepConfidentMatches(ims) ==
  LET Keep(im) == im.confidence >= SuggestionThreshold IN SelectSeq(ims, Keep)

\* speakers.py 323-342
RECURSIVE FileAppearances(_)
FileAppearances(raw) ==
  IF raw = <<>> THEN <<>>
  ELSE KeepConfidentMatches(Head(raw).individual_matches) \o FileAppearances(Tail(raw))

\* sorted(..., key=confidence, reverse=True): stable, highest first
RECURSIVE InsertByConfidence(_, _)
InsertByConfidence(x, sorted) ==
  IF sorted = <<>> THEN << x >>
  ELSE IF Head(sorted).confidence < x.confidence THEN << x >> \o sorted
  ELSE << Head(sorted) >> \o InsertByConfidence(x, Tail(sorted))

RECURSIVE SortedByConfidence(_)
SortedByConfidence(xs) ==
  IF xs = <<>> THEN <<>>
  ELSE InsertByConfidence(xs[Len(xs)], SortedByConfidence(SubSeq(xs, 1, Len(xs) - 1)))

FirstN(xs, n) == SubSeq(xs, 1, IF Len(xs) < n THEN Len(xs) ELSE n)

StartsWithSpeakerPrefix(nm) == nm \in { "SPEAKER_00", "SPEAKER_01" }
\* speakers.py 312-316
Labeled(sp) == sp.display_name # NoName /\ ~StartsWithSpeakerPrefix(sp.display_name)

\* speakers.py 311-346
CrossVideoMatches(sp, raw) ==
  IF Labeled(sp) THEN <<>>
  ELSE FirstN(SortedByConfidence(FileAppearances(raw)), MaxFileAppearances)

RECURSIVE HighestConfidence(_)
HighestConfidence(raw) ==
  IF Len(raw) = 1 THEN raw[1].confidence
  ELSE LET h == HighestConfidence(Tail(raw)) IN
       IF raw[1].confidence > h THEN raw[1].confidence ELSE h

\* speakers.py 348-361
ShownSuggestedName(sp, raw) ==
  IF /\ sp.suggested_name # NoName /\ sp.confidence # NoId /\ raw # <<>>
     /\ sp.confidence < SuggestionThreshold
     /\ HighestConfidence(raw) > sp.confidence + HideMargin
  THEN NoName
  ELSE sp.suggested_name

\* speakers.py 414-443: the fields of speaker_dict the resolver fills
SpeakerDict(l, s, raw) ==
  [suggested_name |-> ShownSuggestedName(l.speaker[s], raw),
   confidence |-> l.speaker[s].confidence,
   voice_suggestions |-> VoiceSuggestions(raw),
   cross_video_matches |-> CrossVideoMatches(l.speaker[s], raw)]

\* the suggestion service finds raw for Speaker a and nothing for the others
ListSpeakers(u, a, raw) ==
  /\ lib.ops < MaxLibOps
  /\ lib.speaker[a].exists /\ lib.speaker[a].user_id = u
  /\ raw \in RawCrossVideoMatches
  /\ LET listed == { s \in SpeakerIds : lib.speaker[s].exists /\ lib.speaker[s].user_id = u }
     IN lib' = Finished(lib, [Operation("list", "ok", a, NoId) EXCEPT
                  !.listing = [s \in listed |->
                     SpeakerDict(lib, s, IF s = a THEN raw ELSE <<>>)]])
  /\ OrchestratorIdle

\* ------------------------------------------------------------------------
\* The speaker library under its requests
\* ------------------------------------------------------------------------
LibNext ==
  \/ \E u \in Users, a, b \in SpeakerIds, ok \in BOOLEAN : MergeSpeakers(u, a, b, ok)
  \/ \E u \in Users, a \in SpeakerIds : DeleteSpeaker(u, a)
  \/ \E u \in Users, a \in SpeakerIds, q \in ProfileIds : AcceptSpeakerProfileMatch(u, a, q)
  \/ \E u \in Users, a \in SpeakerIds : RejectSpeakerSuggestion(u, a)
  \/ \E u \in Users, a \in SpeakerIds, nm \in Names : CreateNewSpeakerProfile(u, a, nm)
  \/ \E u \in Users, a \in SpeakerIds, dn \in Names \cup { NoName }, pa \in ProfileActions :
       UpdateSpeaker(u, a, dn, pa)
  \/ \E u \in Users, g \in SegmentIds, sets \in BOOLEAN, b \in SpeakerIds \cup { NoId } :
       UpdateSingleTranscriptSegment(u, g, sets, b)
  \/ \E u \in Users, a \in SpeakerIds, raw \in RawCrossVideoMatches : ListSpeakers(u, a, raw)

LibSpec == LibraryInit /\ [][LibNext]_vars

\* ------------------------------------------------------------------------
\* The writers of the inventory: time passes, Recordings and Executions are
\* created and updated (app.utils.task_utils), each write stamping the row
\* ------------------------------------------------------------------------
MonitorInit ==
  /\ mon \in { MonitorWith(cfg) : cfg \in TaskRecoveryConfigs }
  /\ lib = EmptyLibrary
  /\ queued = 0
  /\ tasks = [t \in Tasks |-> NoTaskRow]
  /\ files = [f \in Files |-> NewFileRow]
  /\ segments = <<>>
  /\ speakers = {}
  /\ nextTask = 1
  /\ run = [w \in Workers |-> NewRun(NoTask, NoFile, "idle")]

MonitorIdle == UNCHANGED << tasks, files, segments, speakers, nextTask, queued, run, lib >>

\* a change of the inventory or of the time: what the last sweep found no
\* longer describes it
Changed(m) == [m EXCEPT !.scans = NoScans]
Written(m) == [Changed(m) EXCEPT !.writes = @ + 1]

Tick ==
  /\ mon.now < MaxTicks * TickSeconds
  /\ mon' = Changed([mon EXCEPT !.now = @ + TickSeconds])
  /\ MonitorIdle

StartProcessingFile(f) ==
  /\ mon.writes < MaxWrites
  /\ mon.file[f].status = "pending"
  /\ mon' = Written([mon EXCEPT !.file[f].status = "processing",
                                !.file[f].task_started_at = mon.now])
  /\ MonitorIdle

RecordFileProgress(f) ==
  /\ mon.writes < MaxWrites
  /\ mon.file[f].status = "processing"
  /\ mon.file[f].task_last_update # mon.now
  /\ mon' = Written([mon EXCEPT !.file[f].task_last_update = mon.now])
  /\ MonitorIdle

FinishFile(f, st) ==
  /\ mon.writes < MaxWrites
  /\ mon.file[f].status = "processing"
  /\ st \in { "completed", "error" }
  /\ mon' = Written([mon EXCEPT !.file[f].status = st])
  /\ MonitorIdle

CreateTaskEntry(t, f, ty) ==
  /\ mon.writes < MaxWrites
  /\ mon.task[t].status = "none"
  /\ \A x \in Tasks : x < t => mon.task[x].status # "none"
  /\ ty \in TaskTypes
  /\ mon' = Written([mon EXCEPT !.task[t] =
                [status |-> "pending", media_file_id |-> f, task_type |-> ty,
                 created_at |-> mon.now, updated_at |-> mon.now]])
  /\ MonitorIdle

UpdateTaskEntry(t, st) ==
  /\ mon.writes < MaxWrites
  /\ mon.task[t].status \in ActiveStatuses
  /\ st \in { "in_progress", "completed", "failed" }
  /\ mon.task[t].status # st \/ mon.task[t].updated_at # mon.now
  /\ mon' = Written([mon EXCEPT !.task[t].status = st,
                                !.task[t].updated_at = mon.now])
  /\ MonitorIdle

\* ------------------------------------------------------------------------
\* TaskDetectionService (services/task_detection_service.py)
\* ------------------------------------------------------------------------
\* every Execution counts as exceeding its maximum duration
DurationAlwaysExceeded(m, t) == TRUE

\* task_detection_service.py 250-260
IsTaskDurationExceeded(m, t) ==
  IF m.task[t].created_at = NoTime THEN FALSE
  ELSE LET duration == m.now - m.task[t].created_at
           max_duration ==
             IF m.task[t].task_type \in DOMAIN m.config.MAX_TASK_DURATIONS
             THEN m.config.MAX_TASK_DURATIONS[m.task[t].task_type]
             ELSE m.config.MAX_TASK_DURATIONS["default"]
       IN duration > max_duration

\* task_detection_service.py 31-66
IdentifyStuckTasks(m) ==
  LET stale_time == m.now - m.config.STALENESS_THRESHOLD
      potential_stuck_tasks ==
        { t \in Tasks : /\ m.task[t].status \in { "pending", "in_progress" }
                        /\ m.task[t].updated_at # NoTime
                        /\ m.task[t].updated_at < stale_time }
  IN { t \in potential_stuck_tasks : IsTaskDurationExceeded(m, t) }

\* the Executions of a Recording, whatever their status
AllTasksOfFile(m, f) ==
  { t \in Tasks : m.task[t].status # "none" /\ m.task[t].media_file_id = f }

\* task_detection_service.py 98-105
ActiveTasksOfFile(m, f) ==
  { t \in Tasks : /\ m.task[t].media_file_id = f
                  /\ m.task[t].status \in { "pending", "in_progress" } }

\* task_detection_service.py 95
LastUpdateOfFile(r) ==
  IF r.task_last_update # NoTime THEN r.task_last_update
  ELSE IF r.task_started_at # NoTime THEN r.task_started_at
  ELSE r.upload_time

\* task_detection_service.py 68-131
IdentifyStuckFilesWithoutActiveCeleryTasks(m) ==
  LET stuck_threshold == m.now - StuckFileMinutes * SecondsPerMinute
      processing_files == { f \in Files : m.file[f].status = "processing" }
      Stuck(f) ==
        LET last_update == LastUpdateOfFile(m.file[f])
            active_tasks == ActiveTasksOfFile(m, f)
        IN /\ last_update # NoTime /\ last_update < stuck_threshold
           /\ \/ active_tasks = {}
              \/ ~\E t \in active_tasks :
                    /\ m.task[t].updated_at # NoTime
                    /\ m.task[t].updated_at > stuck_threshold
  IN { f \in processing_files : Stuck(f) }

\* the number of Executions of a Recording, whatever their status
AllTaskCount(m, f) == Cardinality(AllTasksOfFile(m, f))

\* task_detection_service.py 204-211
ActiveTaskCount(m, f) ==
  Cardinality({ t \in Tasks : /\ m.task[t].media_file_id = f
                              /\ m.task[t].status \in { "pending", "in_progress" } })

\* task_detection_service.py 187-217
IdentifyAbandonedFiles(m) ==
  { f \in { x \in Files : m.file[x].status = "processing" } : ActiveTaskCount(m, f) = 0 }

\* task_detection_service.py 161-185
IdentifyOrphanedTasks(m) ==
  LET cutoff_time == m.now - m.config.ORPHANED_TASK_THRESHOLD * SecondsPerHour
  IN { t \in Tasks : /\ m.task[t].status \in { "pending", "in_progress" }
                     /\ m.task[t].updated_at # NoTime
                     /\ m.task[t].updated_at < cutoff_time }

\* task_detection_service.py 219-248; user_id is NoId when the caller gave none
FindUserProblemFiles(m, user_id) ==
  LET query == IF user_id # NoId
               THEN { f \in Files : m.file[f].user_id = user_id }
               ELSE Files
      problem_files ==
        { f \in query : m.file[f].status \in { "processing", "pending" } }
      age_threshold == m.config.FILE_RECOVERY_AGE_THRESHOLD * SecondsPerHour
  IN { f \in problem_files : m.now - m.file[f].upload_time > age_threshold }

\* the scheduled sweep: it reads the inventory with each detector and keeps
\* what they found
ScanForStuck ==
  /\ ~mon.scans.done
  /\ mon' = [mon EXCEPT !.scans.done = TRUE,
                        !.scans.stuck_tasks = IdentifyStuckTasks(mon),
                        !.scans.stuck_files = IdentifyStuckFilesWithoutActiveCeleryTasks(mon),
                        !.scans.abandoned = IdentifyAbandonedFiles(mon),
                        !.scans.orphaned = IdentifyOrphanedTasks(mon)]
  /\ MonitorIdle

\* the recovery listing, for one user or for all
ListProblemFiles(user_id) ==
  /\ ~mon.scans.listed
  /\ mon' = [mon EXCEPT !.scans.listed = TRUE,
                        !.scans.user_id = user_id,
                        !.scans.problem_files = FindUserProblemFiles(mon, user_id)]
  /\ MonitorIdle

MonNext ==
  \/ Tick
  \/ \E f \in Files : StartProcessingFile(f)
  \/ \E f \in Files : RecordFileProgress(f)
  \/ \E f \in Files, st \in { "completed", "error" } : FinishFile(f, st)
  \/ \E t \in Tasks, f \in Files, ty \in TaskTypes : CreateTaskEntry(t, f, ty)
  \/ \E t \in Tasks, st \in { "in_progress", "completed", "failed" } : UpdateTaskEntry(t, st)
  \/ ScanForStuck

MonSpec == MonitorInit /\ [][MonNext]_vars

\* ------------------------------------------------------------------------
\* The inventory over hours: the waits between its writes are five minutes
\* or the rest of an hour, so that the long thresholds are crossed too
\* ------------------------------------------------------------------------
ShortWait == StuckFileMinutes * SecondsPerMinute
LongWait == SecondsPerHour - ShortWait
WaitsSoFar(m) == (m.now \div LongWait) + ((m.now % LongWait) \div ShortWait)

Wait(d) ==
  /\ WaitsSoFar(mon) < MaxTicks
  /\ mon' = Changed([mon EXCEPT !.now = @ + d])
  /\ MonitorIdle

RecoveryNext ==
  \/ \E d \in { ShortWait, LongWait } : Wait(d)
  \/ \E f \in Files : StartProcessingFile(f)
  \/ \E f \in Files : RecordFileProgress(f)
  \/ \E f \in Files, st \in { "completed", "error" } : FinishFile(f, st)
  \/ \E t \in Tasks, f \in Files, ty \in TaskTypes : CreateTaskEntry(t, f, ty)
  \/ \E t \in Tasks, st \in { "in_progress", "completed", "failed" } : UpdateTaskEntry(t, st)
  \/ ScanForStuck
  \/ \E u \in Users \cup { NoId } : ListProblemFiles(u)

RecoverySpec == MonitorInit /\ [][RecoveryNext]_vars

\* ------------------------------------------------------------------------
\* Properties
\* ------------------------------------------------------------------------
ActiveTasksOf(f) ==
  { t \in Tasks : tasks[t].file = f /\ tasks[t].status \in ActiveStatuses }

\* C1: a Recording has at most one Execution in a non-terminal status
\* (pending, in_progress) at any time, also when two runs for the same
\* Recording overlap.
C1_AtMostOneActiveTask == \A f \in Files : Cardinality(ActiveTasksOf(f)) <= 1

NonDecreasing(seq) == \A i, j \in 1..Len(seq) : i <= j => seq[i] <= seq[j]

\* C2: within one run the progress persisted on the Execution never decreases
\* from one write to the next, and the percents of the progress notifications
\* the run sends never decrease, on the failure paths too.
C2_ProgressMonotone ==
  [][ /\ \A t \in Tasks : tasks'[t].progress >= tasks[t].progress
      /\ \A w \in Workers : NonDecreasing(run'[w].notifs) ]_vars

\* a run that failed in the diarization, after the callbacks wrote 0.42..0.55
C2_Witness ==
  \E w \in Workers :
    /\ run[w].pc = "done"
    /\ run[w].ret.status = "error"
    /\ run[w].stageExc.stage = "diarize"
    /\ tasks[run[w].task_id].progress = 55
    /\ run[w].notifs = << 25, 40, 42, 50, 55 >>

\* C3: an Execution's progress is 1.0 exactly when its status is completed,
\* also for an Execution that fails after its last stage.
C3_FullProgressIffCompleted ==
  \A t \in Tasks : (tasks[t].progress = 100) <=> (tasks[t].status = "completed")

\* C4: a run that created its Execution sets the Execution's terminal status
\* exactly once: never twice, and never not at all once the run has returned.
C4_TerminalStatusOnce ==
  \A w \in Workers :
    /\ Len(run[w].termWrites) <= 1
    /\ (run[w].pc = "done" /\ run[w].task_id \in Tasks
          /\ tasks[run[w].task_id].status # "none")
         => Len(run[w].termWrites) = 1

FailingStages ==
  { "audio_prepare", "speech_to_text", "temporal_align", "diarize", "assign_speakers" }
SwallowedStages == { "embed_and_match", "index" }

\* C5: when a stage raises an exception that no stage handles, the run ends
\* with the Execution failed, the Recording in error, and the exception's
\* message stored unchanged on the Recording; also for the audio preparation.
C5_UnhandledExceptionRecorded ==
  \A w \in Workers :
    (run[w].pc = "done" /\ run[w].stageExc.stage \in FailingStages)
      => /\ tasks[run[w].task_id].status = "failed"
         /\ files[run[w].file_id].status = "error"
         /\ files[run[w].file_id].last_error_message = run[w].stageExc.exc.msg

LastStage(fr) == fr.stages[Len(fr.stages)]

Blank(segs) == \A i \in 1..Len(segs) : segs[i].text \in {"", "  "}
NoContentLabels == Labels(NoAudioLine) \cup Labels(NoSpeechLine)
BeforeSpeakerMap ==
  { MainLine[i] : i \in 1..Len(MainLine) } \ { "speaker_map", "p72", "n72", "p75", "n75",
     "save_segments", "file_completed", "p78", "release1", "n78", "embed_and_match",
     "p82", "embed_cleanup", "release2", "p85", "n85", "index", "n95", "completed",
     "notify_done", "trigger", "done" }

ClassifiedAs(w, ty, m) ==
  /\ run'[w].ret = ErrorReturn(ty, m)
  /\ tasks'[run[w].task_id].status = "failed"
  /\ tasks'[run[w].task_id].error_message = m
  /\ files'[run[w].file_id].status = "error"
  /\ files'[run[w].file_id].last_error_message = m

C8_NoAudioClassified ==
  \A w \in Workers :
    (/\ run[w].pc = "done"
     /\ \/ run[w].audio \in {"empty", "short"}
        \/ run[w].audio = "silent" /\ run[w].stageExc.stage = "none")
      => run[w].ret.error_type = "no_valid_audio"

\* C9: once the Execution is cancelled the run starts no further stage and
\* never writes in_progress or completed over the cancellation.
C9_CancellationHonored ==
  \A w \in Workers : run[w].afterCancel \subseteq {"failed"}

RowsOf(tbl, f) == SelectSeq(tbl, LAMBDA r : r.media_file_id = f)

\* C10: saving a list S of segments for a Recording leaves the Recording with
\* exactly one row per element of S, in order and with its start, end, text
\* and speaker, whatever rows it had before; other Recordings' rows are
\* unchanged.
C10_SegmentsReplaced ==
  [][ \A w \in Workers :
        (run[w].pc = "save_segments" /\ run'[w].pc = "file_completed")
          => LET f == run[w].file_id
                 S == ProcessSegments(run[w].result, f)
                 rows == RowsOf(segments', f)
             IN /\ S # <<>>
                /\ Len(rows) = Len(S)
                /\ \A i \in 1..Len(S) :
                     /\ rows[i].start_time = S[i].start
                     /\ rows[i].end_time = S[i].end
                     /\ rows[i].text = S[i].text
                     /\ rows[i].speaker_id = S[i].speaker_id
                /\ \A g \in Files \ {f} : RowsOf(segments', g) = RowsOf(segments, g)
    ]_vars

\* the second run on a Recording saved one segment where the first run, which
\* set the duration 5, had saved two
C10_Witness ==
  \E w \in Workers :
    /\ run[w].pc = "file_completed"
    /\ run[w].task_id = 2
    /\ tasks[1].file = run[w].file_id
    /\ files[run[w].file_id].duration = 5
    /\ Len(RowsOf(segments, run[w].file_id)) = 1

MergeDone(a, b) ==
  /\ lib'.ops = lib.ops + 1
  /\ lib'.last.op = "merge" /\ lib'.last.status = "ok"
  /\ lib'.last.speaker = a /\ lib'.last.target = b

\* the segments and the source Speaker after merge_speakers(a, b)
MergeMovesSegments(a, b) ==
  /\ \A g \in SegmentIds :
       /\ lib'.segment[g].speaker_id # a
       /\ lib.segment[g].speaker_id = a => lib'.segment[g].speaker_id = b
       /\ lib.segment[g].speaker_id # a => lib'.segment[g] = lib.segment[g]
  /\ ~lib'.speaker[a].exists

\* v is the elementwise mean of x and y: 2 v[i] = x[i] + y[i]
IsMeanOf(v, x, y) ==
  /\ v # NoEmbedding /\ x # NoEmbedding /\ y # NoEmbedding
  /\ \A i \in 1..Len(v) :
       2 * v[i][1] * x[i][2] * y[i][2] = v[i][2] * (x[i][1] * y[i][2] + y[i][1] * x[i][2])

\* C11 as stated: after a successful merge_speakers(A, B) of two Speakers of
\* one user no segment references A, A's segments reference B, the other
\* segments are unchanged, A is gone, and B's stored embedding is the
\* elementwise mean of A's and B's embeddings before the call.
C11_MergeAveragesAlways ==
  [][ \A a, b \in SpeakerIds :
        MergeDone(a, b)
          => /\ MergeMovesSegments(a, b)
             /\ IsMeanOf(lib'.embedding[b], lib.embedding[a], lib.embedding[b])
    ]_vars

\* C11 amended: as above for the segments and A; B's stored embedding is the
\* mean when both Speakers had a stored embedding and the embedding store
\* answered, and is what it was before the call otherwise.
C11_MergeSpeakers ==
  [][ \A a, b \in SpeakerIds :
        MergeDone(a, b)
          => /\ MergeMovesSegments(a, b)
             /\ IF /\ lib.embedding[a] # NoEmbedding
                   /\ lib.embedding[b] # NoEmbedding
                   /\ lib'.last.store = "ok"
                THEN IsMeanOf(lib'.embedding[b], lib.embedding[a], lib.embedding[b])
                ELSE lib'.embedding[b] = lib.embedding[b]
    ]_vars

\* Speaker 1, which had two segments, was merged into Speaker 3 of the other
\* Recording, and Speaker 3's vector is now the mean (1/2, 1/2)
C11_Witness ==
  /\ lib.last.op = "merge" /\ lib.last.status = "ok"
  /\ lib.last.speaker = 1 /\ lib.last.target = 3
  /\ ~lib.speaker[1].exists
  /\ \A g \in {1, 2, 4} : lib.segment[g].speaker_id = 3
  /\ lib.embedding[3] = << << 1, 2 >>, << 1, 2 >> >>

RejectDone(a) ==
  /\ lib'.ops = lib.ops + 1
  /\ lib'.last.op = "reject" /\ lib'.last.status = "ok" /\ lib'.last.speaker = a

\* C12: after a successful reject on a Speaker the Speaker has no profile, no
\* suggested name and no confidence, and is verified; a listing of the
\* library as the reject left it does not show the suggested name the Speaker
\* had, whatever the suggestion service finds.
C12_RejectClearsSuggestion ==
  [][ \A a \in SpeakerIds :
        RejectDone(a)
          => /\ lib'.speaker[a].profile_id = NoId
             /\ lib'.speaker[a].suggested_name = NoName
             /\ lib'.speaker[a].confidence = NoId
             /\ lib'.speaker[a].verified
             /\ \A raw \in RawCrossVideoMatches :
                  lib.speaker[a].suggested_name # NoName
                    => SpeakerDict(lib', a, raw).suggested_name
                         # lib.speaker[a].suggested_name
    ]_vars

VerifyDone ==
  /\ lib'.ops = lib.ops + 1
  /\ lib'.last.op \in { "accept", "reject", "create_profile" }
  /\ lib'.last.status = "ok"

\* C13: a successful accept, reject or create-profile recomputes the
\* consolidated embedding of every profile whose set of member Speakers the
\* action changed, the profile joined and the profile left.
C13_ChangedProfilesRecomputed ==
  [][ VerifyDone
        => \A q \in ProfileIds :
             MembersOf(lib, q) # MembersOf(lib', q) => q \in lib'.last.recomputed
    ]_vars

ProfileEmbeddingsCurrent(l) ==
  \A q \in ProfileIds :
    l.profile[q].exists /\ MemberEmbeddings(l, q, MaxSpeakers) # <<>>
      => /\ l.profile[q].embedding = ConsolidatedEmbedding(l, q)
         /\ UpdateProfileEmbedding(UpdateProfileEmbedding(l, q), q).profile
              = UpdateProfileEmbedding(l, q).profile

\* C14: every completed speaker operation (update, accept, reject,
\* create-profile, merge, delete) keeps the profiles current: when every
\* profile that has a member with a stored embedding held the mean of its
\* members' stored embeddings before the operation, it does so after it, and
\* recomputing a second time changes nothing.
C14_ProfileEmbeddingIsMemberMean ==
  [][ ( /\ lib'.ops = lib.ops + 1
        /\ lib'.last.op \in { "update", "accept", "reject", "create_profile",
                              "merge", "delete" }
        /\ lib'.last.status = "ok"
        /\ ProfileEmbeddingsCurrent(lib) )
        => ProfileEmbeddingsCurrent(lib')
    ]_vars

SegmentUpdateDone(g) ==
  /\ lib'.ops = lib.ops + 1
  /\ lib'.last.op = "segment" /\ lib'.last.status = "ok" /\ lib'.last.speaker = g

\* C15: after update_single_transcript_segment on a segment of a Recording
\* every Speaker of that Recording is referenced by one of its segments, no
\* Speaker was deleted that a segment still referenced, and a second
\* _cleanup_unused_speakers changes nothing.
C15_UnusedSpeakersPruned ==
  [][ \A g \in SegmentIds :
        SegmentUpdateDone(g)
          => LET f == lib.segment[g].media_file_id IN
             /\ \A s \in SpeakerIds :
                  lib'.speaker[s].exists /\ lib'.speaker[s].media_file_id = f
                    => \E h \in SegmentIds : /\ lib'.segment[h].media_file_id = f
                                             /\ lib'.segment[h].speaker_id = s
             /\ \A s \in SpeakerIds :
                  lib.speaker[s].exists /\ ~lib'.speaker[s].exists
                    => \A h \in SegmentIds \ {g} : lib.segment[h].speaker_id # s
             /\ CleanupUnusedSpeakers(lib', f) = lib'
    ]_vars

Descending(xs) ==
  \A i, j \in 1..Len(xs) : i < j => xs[i].confidence >= xs[j].confidence

Active(t) == mon.task[t].status \in { "pending", "in_progress" }
ActiveExecutionsOf(f) == { t \in Tasks : Active(t) /\ mon.task[t].media_file_id = f }

\* the maximum duration configured for an Execution's type
MaximumDurationOf(t) ==
  IF mon.task[t].task_type = "transcription"
  THEN mon.config.MAX_TASK_DURATIONS.transcription
  ELSE mon.config.MAX_TASK_DURATIONS.default

\* C17: identify_stuck_tasks returns exactly the Executions that are pending
\* or in_progress, were last updated before now minus the staleness
\* threshold, and were created more than their type's maximum duration ago
\* (the default maximum for a type without an entry).
C17_StuckTasksExact ==
  mon.scans.done
    => mon.scans.stuck_tasks
         = { t \in Tasks :
               /\ Active(t)
               /\ mon.task[t].updated_at < mon.now - mon.config.STALENESS_THRESHOLD
               /\ mon.now - mon.task[t].created_at > MaximumDurationOf(t) }

\* a sweep returned an Execution of a type without an entry and left out an
\* active Execution that is as stale but within its type's maximum duration
C17_Witness ==
  /\ mon.scans.done
  /\ \E t \in mon.scans.stuck_tasks : mon.task[t].task_type = "summarization"
  /\ \E t \in Tasks \ mon.scans.stuck_tasks :
       /\ Active(t) /\ mon.task[t].task_type = "transcription"
       /\ mon.task[t].updated_at < mon.now - mon.config.STALENESS_THRESHOLD

\* the timestamp of a Recording's last progress: its last progress update,
\* or its start, or its upload when there was none yet
LastProgressOf(f) ==
  IF mon.file[f].task_last_update # NoTime THEN mon.file[f].task_last_update
  ELSE IF mon.file[f].task_started_at # NoTime THEN mon.file[f].task_started_at
  ELSE mon.file[f].upload_time

\* C18: every sweep classifies as stuck a processing Recording whose last
\* progress timestamp is more than 5 minutes old and that has no pending or
\* in_progress Execution; a Recording that is not processing is never
\* classified stuck.
C18_WorkerDeathDetected ==
  mon.scans.done
    => /\ \A f \in Files :
            ( /\ mon.file[f].status = "processing"
              /\ LastProgressOf(f) < mon.now - 300
              /\ ActiveExecutionsOf(f) = {} )
              => f \in mon.scans.stuck_files
       /\ \A f \in mon.scans.stuck_files : mon.file[f].status = "processing"

\* a sweep found a Recording that stayed processing after its Execution had
\* ended, its last progress more than 5 minutes old
C18_Witness ==
  /\ mon.scans.done
  /\ \E f \in mon.scans.stuck_files :
       /\ LastProgressOf(f) < mon.now - 300
       /\ ActiveExecutionsOf(f) = {}
       /\ \E t \in Tasks : /\ mon.task[t].media_file_id = f
                           /\ mon.task[t].status \in { "completed", "failed" }

\* C19: a processing Recording that has pending or in_progress Executions is
\* classified stuck exactly when its own last progress timestamp is older
\* than the 5-minute window and none of those Executions was updated within
\* the staleness window.
C19_StaleExecutionsOnly ==
  mon.scans.done
    => \A f \in Files :
         mon.file[f].status = "processing" /\ ActiveExecutionsOf(f) # {}
           => ( f \in mon.scans.stuck_files
                  <=> /\ LastProgressOf(f) < mon.now - 300
                      /\ \A t \in ActiveExecutionsOf(f) :
                           ~(mon.task[t].updated_at
                               >= mon.now - mon.config.STALENESS_THRESHOLD) )

\* C20: identify_abandoned_files returns exactly the processing Recordings
\* without a pending or in_progress Execution, and every Recording the
\* stuck-Recording sweep flags while it has no active Execution is among them.
C20_AbandonedSuperset ==
  mon.scans.done
    => /\ mon.scans.abandoned
            = { f \in Files : /\ mon.file[f].status = "processing"
                              /\ ActiveExecutionsOf(f) = {} }
       /\ { f \in mon.scans.stuck_files : ActiveExecutionsOf(f) = {} }
            \subseteq mon.scans.abandoned

\* a sweep in which one Recording is both stuck without an active Execution
\* and abandoned, and another is abandoned without being stuck
C20_Witness ==
  /\ mon.scans.done
  /\ \E f \in mon.scans.stuck_files \cap mon.scans.abandoned :
       ActiveExecutionsOf(f) = {}
  /\ \E f \in mon.scans.abandoned : f \notin mon.scans.stuck_files

\* C21: the recovery listing asked for one user returns only Recordings of
\* that user that are processing, have no pending or in_progress Execution,
\* and were uploaded longer ago than the age threshold.
C21_UserListingOnlyAbandoned ==
  mon.scans.listed /\ mon.scans.user_id # NoId
    => \A f \in mon.scans.problem_files :
         /\ mon.file[f].user_id = mon.scans.user_id
         /\ mon.file[f].status = "processing"
         /\ ActiveExecutionsOf(f) = {}
         /\ mon.now - mon.file[f].upload_time
              > mon.config.FILE_RECOVERY_AGE_THRESHOLD * SecondsPerHour

\* the Executions on which a rule's verdict is its staleness test alone: for
\* the stuck-Execution rule those past their maximum duration, for the
\* stuck-Recording rule the only active Execution of a processing Recording
\* whose own last progress is older than 5 minutes
JudgedByStuckTaskRule(t) ==
  Active(t) /\ mon.now - mon.task[t].created_at > MaximumDurationOf(t)

JudgedByStuckFileRule(t) ==
  /\ Active(t)
  /\ mon.file[mon.task[t].media_file_id].status = "processing"
  /\ LastProgressOf(mon.task[t].media_file_id) < mon.now - 300
  /\ ActiveExecutionsOf(mon.task[t].media_file_id) = {t}

\* how long before its rule's boundary an Execution was last updated, and
\* whether the rule found it stale
Verdict(t, window, stale) ==
  [before |-> (mon.now - window) - mon.task[t].updated_at, stale |-> stale]

StalenessVerdicts ==
  { Verdict(t, mon.config.STALENESS_THRESHOLD, t \in mon.scans.stuck_tasks)
      : t \in { x \in Tasks : JudgedByStuckTaskRule(x) } }
  \cup
  { Verdict(t, 300, mon.task[t].media_file_id \in mon.scans.stuck_files)
      : t \in { x \in Tasks : JudgedByStuckFileRule(x) } }
  \cup
  { Verdict(t, mon.config.ORPHANED_TASK_THRESHOLD * 3600, t \in mon.scans.orphaned)
      : t \in { x \in Tasks : Active(x) } }

\* C22: in one sweep every rule that tests staleness finds an Execution
\* updated before its boundary stale and one updated after it not stale,
\* and all rules give the same verdict on an Execution updated exactly at
\* the boundary (now minus the rule's window).
C22_BoundaryConsistent ==
  mon.scans.done
    => /\ \A v \in StalenessVerdicts :
            /\ v.before > 0 => v.stale
            /\ v.before < 0 => ~v.stale
       /\ \A v, w \in StalenessVerdicts :
            v.before = 0 /\ w.before = 0 => v.stale = w.stale

\* C23: a delete request for a Recording that is not safe to delete is
\* answered with a conflict and changes nothing unless it is forced, and a
\* Recording's data is removed only when none of its Executions is pending
\* or in_progress any more.
C23_NoDeleteWhileActive ==
  [][ \A f \in Files :
        /\ ( /\ files[f].delete_request = "none"
             /\ files'[f].delete_request = "checked" )
             => ActiveTasksOf(f) = {} /\ files[f].status # "processing"
        /\ files'[f].delete_response = "conflict" /\ files[f].delete_response # "conflict"
             => /\ tasks' = tasks /\ segments' = segments /\ speakers' = speakers
                /\ files' = [files EXCEPT ![f].delete_response = "conflict"]
        /\ ( \/ files[f].stored /\ ~files'[f].stored
             \/ files[f].indexed /\ ~files'[f].indexed /\ files[f].delete_request # "none"
             \/ ~files[f].deleted /\ files'[f].deleted )
             => ActiveTasksOf(f) = {}
    ]_vars

\* the stages of an Execution, in their order; finalize is the terminal
\* write of completed with its notification
StageOrder ==
  << "audio_prepare", "speech_to_text", "temporal_align", "diarize",
     "assign_speakers", "embed_and_match", "index" >>

IsPrefix(xs, ys) == Len(xs) <= Len(ys) /\ xs = SubSeq(ys, 1, Len(xs))

FinalizeStarted(fr) ==
  fr.pc \in { "notify_done", "trigger" } \/ (fr.pc = "done" /\ fr.ret.status = "success")

\* the stages of a run started in the fixed order, finalize after all of
\* them, and none of them while a model of an earlier stage was still on
\* the device
OrderedAndReleased(fr) ==
  /\ IsPrefix(fr.stages, StageOrder)
  /\ FinalizeStarted(fr) => fr.stages = StageOrder /\ fr.device = "free"
  /\ fr.startedHeld = {}

SegmentsLeftWith(s) ==
  { g \in SegmentIds :
      /\ lib.segment[g].speaker_id = s
      /\ ~(lib'.last.op = "segment" /\ lib'.last.speaker = g) }

\* C25: over all speaker and segment operations a Speaker row is removed
\* only as the source of a merge or when no segment references it.
C25_OnlyMergeDestroysUsedSpeaker ==
  [][ \A s \in SpeakerIds :
        lib.speaker[s].exists /\ ~lib'.speaker[s].exists
          => \/ lib'.last.op = "merge" /\ lib'.last.speaker = s
             \/ SegmentsLeftWith(s) = {}
    ]_vars

\* C26: after every completed operation each TranscriptSegment references
\* an existing Speaker: none is left without a Speaker or with a deleted one.
C26_SegmentsReferenceSpeakers ==
  \A g \in SegmentIds :
    lib.segment[g].media_file_id # NoId
      => /\ lib.segment[g].speaker_id # NoId
         /\ lib.speaker[lib.segment[g].speaker_id].exists

\* how often a run wrote failed to its Execution
FailedWrites(fr) == Len(SelectSeq(fr.termWrites, LAMBDA st : st = "failed"))

\* C27: a run that found its Recording sends exactly one terminal
\* notification, a completion or an error and never both, and writes a
\* failure to its Execution and to its Recording at most once each, also
\* when a write or a notification of an error handler raises.
C27_RecordedAndReportedOnce ==
  \A w \in Workers :
    run[w].file_id \in Files
      => /\ Len(run[w].finals) <= 1
         /\ run[w].pc = "done" => Len(run[w].finals) = 1
         /\ FailedWrites(run[w]) <= 1
         /\ run[w].fileErrors <= 1

\* the Execution a Recording points to has ended completed
ExecutionCompleted(ts, fs, f) ==
  fs[f].active_task_id \in Tasks /\ ts[fs[f].active_task_id].status = "completed"

\* C28: a Recording is completed only once the Execution that processed it
\* is completed, never while that Execution is in_progress or failed, and a
\* completed Recording does not change to error.
C28_CompletedOnlyWithExecution ==
  [][ \A f \in Files :
        /\ files'[f].status = "completed" => ExecutionCompleted(tasks', files', f)
        /\ ~(files[f].status = "completed" /\ files'[f].status = "error")
    ]_vars


\* C29: a Speaker stays within one Recording: every TranscriptSegment that
\* references a Speaker references one of the segment's own Recording, and a
\* request that would attribute a segment to a Speaker of another Recording
\* changes no segment.
C29_SpeakerScopedToRecording ==
  \A g \in SegmentIds :
    LET s == lib.segment[g].speaker_id IN
      (s # NoId /\ lib.speaker[s].exists)
        => lib.speaker[s].media_file_id = lib.segment[g].media_file_id


\* the SpeakerProfile rows a step inserted
CreatedProfiles == { q \in ProfileIds : ~lib.profile[q].exists /\ lib'.profile[q].exists }

\* C30: profile names are unique per user: a request that creates a
\* SpeakerProfile leaves its owner with no other profile of that name, and a
\* create-profile request answered "already exists" changes neither a
\* Speaker nor a profile.
C30_ProfileNamesUniquePerUser ==
  [][ /\ \A q \in CreatedProfiles :
           ProfilesNamed(lib', lib'.profile[q].user_id, lib'.profile[q].name) = { q }
      /\ (lib'.ops # lib.ops /\ lib'.last.op = "create_profile"
            /\ lib'.last.status = "exists")
           => lib'.speaker = lib.speaker /\ lib'.profile = lib.profile
    ]_vars

====
